---------------------------- MODULE Spec2Model ----------------------------
(***************************************************************************)
(* A model of the multi-threaded FTP server and client:                    *)
(*   - ThreadPool (thread_pool.cpp): queue_mutex, condition, tasks, stop   *)
(*   - the session engine (client_handler.cpp): handle_client,             *)
(*     execute_command and the command handlers, over a byte-level socket  *)
(*   - the client (myftp.cpp): client_loop, handle_put, handle_get         *)
(* Bytes are one-character strings ("ESC" stands for the byte 0x1b); a     *)
(* C++ std::string is a sequence of bytes.                                 *)
(***************************************************************************)
EXTENDS Integers, Sequences, FiniteSets, TLC

VARIABLES
    (* ThreadPool *)
    stop,          \* bool ThreadPool::stop
    tasks,         \* std::queue tasks: sequence of task ids, front first
    queue_mutex,   \* owner of queue_mutex: 0 free, w a worker, MainThread
    wpc,           \* wpc[w]: where worker w stands in ThreadPool::worker
    wtask,         \* wtask[w]: the task moved out of the queue by worker w
    mpc,           \* where the thread owning the pool stands
    ntask,         \* number of tasks handed to enqueue so far
    executed,      \* executed[t]: how many times task t has been called
    queuedAtStop,  \* the tasks that were in the queue when stop was set
    (* sockets: one TCP connection per task of the server *)
    c2s,           \* c2s[c]: bytes sent by the client, not yet received
    s2c,           \* s2c[c]: bytes sent by the server, not yet received
    cclosed,       \* cclosed[c]: the client has closed its end
    (* session engine *)
    spc,           \* spc[c]: state of handle_client for connection c
    leftover_data, \* leftover_data[c] of handle_put
    put_file,      \* put_file[c]: path of the ofstream handle_put holds open
    put_off,       \* put_off[c]: write position of that ofstream
    last,          \* last[c]: the last input handled and the sends it caused
    (* filesystem of the server process *)
    cwd,           \* the working directory of the process (chdir/getcwd)
    dirs,          \* the directories that exist
    files,         \* files[p]: content of the regular file at path p
    denied,        \* paths on which the OS refuses the operation asked
    (* client process *)
    cpc,           \* where the client stands in client_loop and its handlers
    cfile,         \* cfile[n]: content of the client's local file n
    cname,         \* the file name of the put or get being run
    ncmd,          \* ncmd[c]: number of messages the peer of c has sent
    typed,         \* the command lines the user of the client has typed
    orig,          \* content of the local file when the last put began
    (* cancellation side-channel (myftpserver.cpp) *)
    active_commands, \* std::unordered_map<int, bool> active_commands
    term_sock,     \* the connection accept(term_sock) returned last
    term_in,       \* bytes the canceller has sent on it, not yet received
    term_out,      \* bytes the server has sent on it
    term_last,     \* the command_id of the last request and what count found
    term_nul,      \* the index of buffer[bytes_received] = '\0' of that request
    (* failures of send on the session sockets *)
    send_failed,   \* send_failed[c]: how many calls of send on c have failed
    (* inside one call of execute_command or of a handler *)
    static_guard,  \* the guard of static CommandMap command_map
    static_map,    \* the names command_map holds
    static_calls,  \* how many times create_command_map has been called
    epc,           \* epc[c]: where session c stands at the static declaration
    mkdir_at       \* mkdir_at[c]: the path handle_mkdir of c found absent

vars == <<stop, tasks, queue_mutex, wpc, wtask, mpc, ntask, executed,
          queuedAtStop, c2s, s2c, cclosed, spc, leftover_data, put_file,
          put_off, last, cwd, dirs, files, denied, cpc, cfile, cname, ncmd,
          typed, orig, active_commands, term_sock, term_in, term_out,
          term_last, term_nul, send_failed, static_guard, static_map,
          static_calls, epc, mkdir_at>>

poolVars == <<stop, tasks, queue_mutex, wpc, wtask, mpc, ntask, executed,
              queuedAtStop>>
netVars == <<c2s, s2c, cclosed>>
sessVars == <<spc, leftover_data, put_file, put_off, last>>
fsVars == <<cwd, dirs, files, denied>>
clientVars == <<cpc, cfile, cname, ncmd, typed, orig>>
cancelVars == <<active_commands, term_sock, term_in, term_out, term_last,
                term_nul>>
execVars == <<static_guard, static_map, static_calls, epc, mkdir_at>>

(***************************************************************************)
(* Bounds of the model.                                                    *)
(***************************************************************************)
NumWorkers == 2
MaxTasks == 3
MaxSeg == 1
MaxLen == 1
MaxUserCmds == 2
MaxCmds == 2

BUFFER_SIZE == 1024

(***************************************************************************)
(* The string literals of the sources, as sequences of bytes.              *)
(***************************************************************************)
\* the status words of send_response
S_SUCCESS ==
    <<"S", "U", "C", "C", "E", "S", "S">>
S_ERROR ==
    <<"E", "R", "R", "O", "R">>
\* status + ": " + message + "\n" of send_response
S_SEP ==
    <<":", " ">>
S_LF ==
    <<"\n">>
\* the words of the transfer sub-protocols (client_handler.cpp)
S_FILE_TRANSFER_END ==
    <<"F", "I", "L", "E", "_", "T", "R", "A", "N", "S", "F", "E", "R", "_",
      "E", "N", "D">>
S_FILE_TRANSFER_START ==
    <<"F", "I", "L", "E", "_", "T", "R", "A", "N", "S", "F", "E", "R", "_",
      "S", "T", "A", "R", "T">>
S_READY_TO_RECEIVE ==
    <<"R", "E", "A", "D", "Y", "_", "T", "O", "_", "R", "E", "C", "E", "I",
      "V", "E">>
\* handle_client: welcome_msg
S_welcome_msg ==
    <<"ESC", "[", "3", "2", "m", "C", "o", "n", "n", "e", "c", "t", "e",
      "d", " ", "t", "o", " ", "M", "y", "F", "T", "P", "S", "e", "r", "v",
      "e", "r", "!", "ESC", "[", "0", "m">>
\* the literals of the client (myftp.cpp)
C_put ==
    <<"p", "u", "t", " ">>
C_get ==
    <<"g", "e", "t", " ">>
C_READY ==
    <<"S", "U", "C", "C", "E", "S", "S", ":", " ", "R", "E", "A", "D", "Y",
      "_", "T", "O", "_", "R", "E", "C", "E", "I", "V", "E">>
C_START ==
    <<"S", "U", "C", "C", "E", "S", "S", ":", " ", "F", "I", "L", "E", "_",
      "T", "R", "A", "N", "S", "F", "E", "R", "_", "S", "T", "A", "R", "T">>
\* the terminator both sides search for: "FILE_TRANSFER_END\n"
MARKER == S_FILE_TRANSFER_END \o S_LF

\* the messages the handlers of client_handler.cpp give to send_response
Msg ==
    [ FileNameNotSpecified |->
          <<"F", "i", "l", "e", " ", "n", "a", "m", "e", " ", "n", "o", "t",
            " ", "s", "p", "e", "c", "i", "f", "i", "e", "d", ".">>,
      UnableToCreateFile |->
          <<"U", "n", "a", "b", "l", "e", " ", "t", "o", " ", "c", "r", "e",
            "a", "t", "e", " ", "f", "i", "l", "e", ".">>,
      FileTransferFailed |->
          <<"F", "i", "l", "e", " ", "t", "r", "a", "n", "s", "f", "e", "r",
            " ", "f", "a", "i", "l", "e", "d", ".">>,
      FileTransferCompleted |->
          <<"F", "i", "l", "e", " ", "t", "r", "a", "n", "s", "f", "e", "r",
            " ", "c", "o", "m", "p", "l", "e", "t", "e", "d", ".">>,
      FileNotFound |->
          <<"4", "0", "4", " ", "-", " ", "F", "i", "l", "e", " ", "n", "o",
            "t", " ", "f", "o", "u", "n", "d", ".">>,
      UnableToOpenFile |->
          <<"U", "n", "a", "b", "l", "e", " ", "t", "o", " ", "o", "p", "e",
            "n", " ", "f", "i", "l", "e", ".">>,
      DirNameNotSpecified |->
          <<"D", "i", "r", "e", "c", "t", "o", "r", "y", " ", "n", "a", "m",
            "e", " ", "n", "o", "t", " ", "s", "p", "e", "c", "i", "f", "i",
            "e", "d", ".">>,
      DirAlreadyExists |->
          <<"D", "i", "r", "e", "c", "t", "o", "r", "y", " ", "a", "l", "r",
            "e", "a", "d", "y", " ", "e", "x", "i", "s", "t", "s", ".">>,
      FileSameNameExists |->
          <<"A", " ", "f", "i", "l", "e", " ", "w", "i", "t", "h", " ", "t",
            "h", "e", " ", "s", "a", "m", "e", " ", "n", "a", "m", "e", " ",
            "e", "x", "i", "s", "t", "s", ".">>,
      DirCreated |->
          <<"D", "i", "r", "e", "c", "t", "o", "r", "y", " ", "c", "r", "e",
            "a", "t", "e", "d", " ", "s", "u", "c", "c", "e", "s", "s", "f",
            "u", "l", "l", "y", ".">>,
      UnableToCreateDir |->
          <<"U", "n", "a", "b", "l", "e", " ", "t", "o", " ", "c", "r", "e",
            "a", "t", "e", " ", "d", "i", "r", "e", "c", "t", "o", "r", "y",
            ".">>,
      PathIsDirectory |->
          <<"S", "p", "e", "c", "i", "f", "i", "e", "d", " ", "p", "a", "t",
            "h", " ", "i", "s", " ", "a", " ", "d", "i", "r", "e", "c", "t",
            "o", "r", "y", ",", " ", "n", "o", "t", " ", "a", " ", "f", "i",
            "l", "e", ".">>,
      FileDeleted |->
          <<"F", "i", "l", "e", " ", "d", "e", "l", "e", "t", "e", "d",
            ".">>,
      UnableToDeleteFile |->
          <<"U", "n", "a", "b", "l", "e", " ", "t", "o", " ", "d", "e", "l",
            "e", "t", "e", " ", "f", "i", "l", "e", ".">>,
      DirNotSpecified |->
          <<"D", "i", "r", "e", "c", "t", "o", "r", "y", " ", "n", "o", "t",
            " ", "s", "p", "e", "c", "i", "f", "i", "e", "d", ".">>,
      DirNotFound |->
          <<"D", "i", "r", "e", "c", "t", "o", "r", "y", " ", "n", "o", "t",
            " ", "f", "o", "u", "n", "d", ".">>,
      NotADirectory |->
          <<"S", "p", "e", "c", "i", "f", "i", "e", "d", " ", "p", "a", "t",
            "h", " ", "i", "s", " ", "n", "o", "t", " ", "a", " ", "d", "i",
            "r", "e", "c", "t", "o", "r", "y", ".">>,
      DirChanged |->
          <<"D", "i", "r", "e", "c", "t", "o", "r", "y", " ", "c", "h", "a",
            "n", "g", "e", "d", ".">>,
      UnableToChangeDir |->
          <<"U", "n", "a", "b", "l", "e", " ", "t", "o", " ", "c", "h", "a",
            "n", "g", "e", " ", "d", "i", "r", "e", "c", "t", "o", "r", "y",
            ".">>,
      UnableToOpenDir |->
          <<"U", "n", "a", "b", "l", "e", " ", "t", "o", " ", "o", "p", "e",
            "n", " ", "d", "i", "r", "e", "c", "t", "o", "r", "y", ".">>,
      DirIsEmpty |->
          <<"D", "i", "r", "e", "c", "t", "o", "r", "y", " ", "i", "s", " ",
            "e", "m", "p", "t", "y", ".">>,
      UnableToGetCwd |->
          <<"U", "n", "a", "b", "l", "e", " ", "t", "o", " ", "r", "e", "t",
            "r", "i", "e", "v", "e", " ", "c", "u", "r", "r", "e", "n", "t",
            " ", "d", "i", "r", "e", "c", "t", "o", "r", "y", ".">>,
      InvalidCommand |->
          <<"I", "n", "v", "a", "l", "i", "d", " ", "c", "o", "m", "m", "a",
            "n", "d", ".">> ]

\* the command words: the keys of create_command_map, and quit
Kw ==
    [ pwd |-> <<"p", "w", "d">>,
      ls |-> <<"l", "s">>,
      cd |-> <<"c", "d">>,
      mkdir |-> <<"m", "k", "d", "i", "r">>,
      delete |-> <<"d", "e", "l", "e", "t", "e">>,
      get |-> <<"g", "e", "t">>,
      put |-> <<"p", "u", "t">>,
      quit |-> <<"q", "u", "i", "t">> ]

(***************************************************************************)
(* std::string operations, positions counted from 0 as in C++.             *)
(***************************************************************************)
npos == -1

Min(a, b) == IF a < b THEN a ELSE b

SetMin(S) == CHOOSE x \in S : \A y \in S : x <= y

SetMax(S) == CHOOSE x \in S : \A y \in S : y <= x

\* str.substr(pos, n)
substr(str, pos, n) == SubSeq(str, pos + 1, Min(pos + n, Len(str)))

\* str.substr(pos)
substr_from(str, pos) == SubSeq(str, pos + 1, Len(str))

\* str.find(pat): position of the first occurrence, or npos
find(str, pat) ==
    LET hits == {i \in 0..(Len(str) - Len(pat)) :
                    /\ str[i + 1] = pat[1]
                    /\ SubSeq(str, i + 1, i + Len(pat)) = pat}
    IN  IF hits = {} THEN npos ELSE SetMin(hits)

\* str.find_first_not_of(set)
find_first_not_of(str, set) ==
    LET hits == {i \in 0..(Len(str) - 1) : str[i + 1] \notin set}
    IN  IF hits = {} THEN npos ELSE SetMin(hits)

\* str.find_last_not_of(set)
find_last_not_of(str, set) ==
    LET hits == {i \in 0..(Len(str) - 1) : str[i + 1] \notin set}
    IN  IF hits = {} THEN npos ELSE SetMax(hits)

\* the characters of " \t\n\r"
Whitespace == {" ", "\t", "\n", "\r"}

\* trim(str)
trim(str) ==
    LET start == find_first_not_of(str, Whitespace)
        end == find_last_not_of(str, Whitespace)
    IN  IF start = npos THEN <<>> ELSE substr(str, start, end - start + 1)

\* the bytes of a sequence of byte strings, in order
RECURSIVE Flatten(_)
Flatten(ss) == IF ss = <<>> THEN <<>> ELSE Head(ss) \o Flatten(Tail(ss))

\* send_response(sock, status, message): the bytes given to send
send_response2(status, message) == status \o S_SEP \o message \o S_LF

\* send_response(sock, message): the bytes given to send
send_response1(message) == message \o S_LF

(***************************************************************************)
(* ThreadPool (thread_pool.cpp).                                           *)
(***************************************************************************)
Workers == 1..NumWorkers
TaskIds == 1..MaxTasks
MainThread == NumWorkers + 1

\* the elements of a sequence
Range(s) == {s[i] : i \in 1..Len(s)}

\* ThreadPool::ThreadPool: stop(false), every worker thread enters worker()
PoolInit ==
    /\ stop = FALSE
    /\ tasks = <<>>
    /\ queue_mutex = 0
    /\ wpc = [w \in Workers |-> "lock"]
    /\ wtask = [w \in Workers |-> 0]
    /\ mpc = "idle"
    /\ ntask = 0
    /\ executed = [t \in TaskIds |-> 0]
    /\ queuedAtStop = {}

\* condition.notify_one(): one thread blocked in wait, if there is one, wakes
NotifyOne ==
    IF \E w \in Workers : wpc[w] = "blocked"
    THEN \E w \in Workers :
            /\ wpc[w] = "blocked"
            /\ wpc' = [wpc EXCEPT ![w] = "woken"]
    ELSE wpc' = wpc

\* condition.notify_all(): every thread blocked in wait wakes
NotifyAll ==
    wpc' = [w \in Workers |-> IF wpc[w] = "blocked" THEN "woken" ELSE wpc[w]]

\* worker(): std::unique_lock<std::mutex> lock(queue_mutex)
WorkerLock(w) ==
    /\ wpc[w] = "lock"
    /\ queue_mutex = 0
    /\ queue_mutex' = w
    /\ wpc' = [wpc EXCEPT ![w] = "wait"]
    /\ UNCHANGED <<stop, tasks, wtask, mpc, ntask, executed, queuedAtStop>>
    /\ UNCHANGED <<netVars, sessVars, fsVars, clientVars>>
    /\ UNCHANGED <<cancelVars, send_failed, execVars>>

\* condition.wait(lock, pred) with pred false: release the mutex and block
WorkerBlock(w) ==
    /\ wpc[w] = "wait"
    /\ ~(stop \/ tasks # <<>>)
    /\ queue_mutex' = 0
    /\ wpc' = [wpc EXCEPT ![w] = "blocked"]
    /\ UNCHANGED <<stop, tasks, wtask, mpc, ntask, executed, queuedAtStop>>
    /\ UNCHANGED <<netVars, sessVars, fsVars, clientVars>>
    /\ UNCHANGED <<cancelVars, send_failed, execVars>>

\* a wait may return without a notify (spurious wake-up)
WorkerSpuriousWake(w) ==
    /\ wpc[w] = "blocked"
    /\ wpc' = [wpc EXCEPT ![w] = "woken"]
    /\ UNCHANGED <<stop, tasks, queue_mutex, wtask, mpc, ntask, executed,
                   queuedAtStop>>
    /\ UNCHANGED <<netVars, sessVars, fsVars, clientVars>>
    /\ UNCHANGED <<cancelVars, send_failed, execVars>>

\* a woken wait takes the mutex again and evaluates pred again
WorkerRelock(w) ==
    /\ wpc[w] = "woken"
    /\ queue_mutex = 0
    /\ queue_mutex' = w
    /\ wpc' = [wpc EXCEPT ![w] = "wait"]
    /\ UNCHANGED <<stop, tasks, wtask, mpc, ntask, executed, queuedAtStop>>
    /\ UNCHANGED <<netVars, sessVars, fsVars, clientVars>>
    /\ UNCHANGED <<cancelVars, send_failed, execVars>>

\* a worker() that returns as soon as it sees stop, whatever the queue holds
WorkerReturn_OnStop(w) ==
    /\ wpc[w] = "wait"
    /\ stop
    /\ queue_mutex' = 0
    /\ wpc' = [wpc EXCEPT ![w] = "exited"]
    /\ UNCHANGED <<stop, tasks, wtask, mpc, ntask, executed, queuedAtStop>>
    /\ UNCHANGED <<netVars, sessVars, fsVars, clientVars>>
    /\ UNCHANGED <<cancelVars, send_failed, execVars>>

\* if (stop && tasks.empty()) return;  (the lock is released on return)
WorkerReturn(w) ==
    /\ wpc[w] = "wait"
    /\ stop /\ tasks = <<>>
    /\ queue_mutex' = 0
    /\ wpc' = [wpc EXCEPT ![w] = "exited"]
    /\ UNCHANGED <<stop, tasks, wtask, mpc, ntask, executed, queuedAtStop>>
    /\ UNCHANGED <<netVars, sessVars, fsVars, clientVars>>
    /\ UNCHANGED <<cancelVars, send_failed, execVars>>

\* a worker() whose lock lives on while the task runs
WorkerDequeue_HoldLock(w) ==
    /\ wpc[w] = "wait"
    /\ (stop \/ tasks # <<>>)
    /\ ~(stop /\ tasks = <<>>)
    /\ wtask' = [wtask EXCEPT ![w] = Head(tasks)]
    /\ tasks' = Tail(tasks)
    /\ executed' = [executed EXCEPT ![Head(tasks)] = @ + 1]
    /\ wpc' = [wpc EXCEPT ![w] = "run"]
    /\ UNCHANGED <<stop, queue_mutex, mpc, ntask, queuedAtStop>>
    /\ UNCHANGED <<netVars, sessVars, fsVars, clientVars>>
    /\ UNCHANGED <<cancelVars, send_failed, execVars>>

\* a worker that takes the task that was queued last
WorkerDequeue_Back(w) ==
    /\ wpc[w] = "wait"
    /\ (stop \/ tasks # <<>>)
    /\ ~(stop /\ tasks = <<>>)
    /\ wtask' = [wtask EXCEPT ![w] = tasks[Len(tasks)]]
    /\ tasks' = SubSeq(tasks, 1, Len(tasks) - 1)
    /\ queue_mutex' = 0
    /\ executed' = [executed EXCEPT ![tasks[Len(tasks)]] = @ + 1]
    /\ wpc' = [wpc EXCEPT ![w] = "run"]
    /\ UNCHANGED <<stop, mpc, ntask, queuedAtStop>>
    /\ UNCHANGED <<netVars, sessVars, fsVars, clientVars>>
    /\ UNCHANGED <<cancelVars, send_failed, execVars>>

\* task = std::move(tasks.front()); tasks.pop(); } task();
\* the lock's scope ends before the call
WorkerDequeue(w) ==
    /\ wpc[w] = "wait"
    /\ (stop \/ tasks # <<>>)
    /\ ~(stop /\ tasks = <<>>)
    /\ wtask' = [wtask EXCEPT ![w] = Head(tasks)]
    /\ tasks' = Tail(tasks)
    /\ queue_mutex' = 0
    /\ executed' = [executed EXCEPT ![Head(tasks)] = @ + 1]
    /\ wpc' = [wpc EXCEPT ![w] = "run"]
    /\ UNCHANGED <<stop, mpc, ntask, queuedAtStop>>
    /\ UNCHANGED <<netVars, sessVars, fsVars, clientVars>>
    /\ UNCHANGED <<cancelVars, send_failed, execVars>>

\* task() returns: the while (true) of worker() starts over
TaskReturn(w) ==
    /\ wpc[w] = "run"
    /\ wpc' = [wpc EXCEPT ![w] = "lock"]
    /\ UNCHANGED <<stop, tasks, queue_mutex, wtask, mpc, ntask, executed,
                   queuedAtStop>>
    /\ UNCHANGED <<netVars, sessVars, fsVars, clientVars>>
    /\ UNCHANGED <<cancelVars, send_failed, execVars>>

\* the owner of the pool calls enqueue with a new task
Submit ==
    /\ mpc = "idle"
    /\ ntask < MaxTasks
    /\ ntask' = ntask + 1
    /\ mpc' = "enq_lock"
    /\ UNCHANGED <<stop, tasks, queue_mutex, wpc, wtask, executed,
                   queuedAtStop>>
    /\ UNCHANGED <<netVars, sessVars, fsVars, clientVars>>
    /\ UNCHANGED <<cancelVars, send_failed, execVars>>

\* enqueue: std::unique_lock<std::mutex> lock(queue_mutex)
EnqueueLock ==
    /\ mpc = "enq_lock"
    /\ queue_mutex = 0
    /\ queue_mutex' = MainThread
    /\ mpc' = "enq_push"
    /\ UNCHANGED <<stop, tasks, wpc, wtask, ntask, executed, queuedAtStop>>
    /\ UNCHANGED <<netVars, sessVars, fsVars, clientVars>>
    /\ UNCHANGED <<cancelVars, send_failed, execVars>>

\* an accept loop that closes the socket it has handed to the pool
EnqueuePush_CloseSock ==
    /\ mpc = "enq_push"
    /\ tasks' = Append(tasks, ntask)
    /\ queue_mutex' = 0
    /\ mpc' = "enq_notify"
    /\ spc' = [spc EXCEPT ![ntask] = "closed"]
    /\ UNCHANGED <<stop, wpc, wtask, ntask, executed, queuedAtStop>>
    /\ UNCHANGED <<netVars, leftover_data, put_file, put_off, last, fsVars,
                   clientVars>>
    /\ UNCHANGED <<cancelVars, send_failed, execVars>>

\* enqueue: tasks.push(std::move(task)); }
EnqueuePush ==
    /\ mpc = "enq_push"
    /\ tasks' = Append(tasks, ntask)
    /\ queue_mutex' = 0
    /\ mpc' = "enq_notify"
    /\ UNCHANGED <<stop, wpc, wtask, ntask, executed, queuedAtStop>>
    /\ UNCHANGED <<netVars, sessVars, fsVars, clientVars>>
    /\ UNCHANGED <<cancelVars, send_failed, execVars>>

\* an enqueue that returns without condition.notify_one()
EnqueueNotify_None ==
    /\ mpc = "enq_notify"
    /\ mpc' = "idle"
    /\ UNCHANGED <<stop, tasks, queue_mutex, wpc, wtask, ntask, executed,
                   queuedAtStop>>
    /\ UNCHANGED <<netVars, sessVars, fsVars, clientVars>>
    /\ UNCHANGED <<cancelVars, send_failed, execVars>>

\* enqueue: condition.notify_one()
EnqueueNotify ==
    /\ mpc = "enq_notify"
    /\ NotifyOne
    /\ mpc' = "idle"
    /\ UNCHANGED <<stop, tasks, queue_mutex, wtask, ntask, executed,
                   queuedAtStop>>
    /\ UNCHANGED <<netVars, sessVars, fsVars, clientVars>>
    /\ UNCHANGED <<cancelVars, send_failed, execVars>>

\* the pool goes out of scope: ~ThreadPool() begins
DtorBegin ==
    /\ mpc = "idle"
    /\ mpc' = "dtor_lock"
    /\ UNCHANGED <<stop, tasks, queue_mutex, wpc, wtask, ntask, executed,
                   queuedAtStop>>
    /\ UNCHANGED <<netVars, sessVars, fsVars, clientVars>>
    /\ UNCHANGED <<cancelVars, send_failed, execVars>>

\* ~ThreadPool: std::unique_lock<std::mutex> lock(queue_mutex)
DtorLock ==
    /\ mpc = "dtor_lock"
    /\ queue_mutex = 0
    /\ queue_mutex' = MainThread
    /\ mpc' = "dtor_stop"
    /\ UNCHANGED <<stop, tasks, wpc, wtask, ntask, executed, queuedAtStop>>
    /\ UNCHANGED <<netVars, sessVars, fsVars, clientVars>>
    /\ UNCHANGED <<cancelVars, send_failed, execVars>>

\* a destructor that empties the queue as it sets stop
DtorStop_DropQueue ==
    /\ mpc = "dtor_stop"
    /\ stop' = TRUE
    /\ queuedAtStop' = Range(tasks)
    /\ tasks' = <<>>
    /\ queue_mutex' = 0
    /\ mpc' = "dtor_notify"
    /\ UNCHANGED <<wpc, wtask, ntask, executed>>
    /\ UNCHANGED <<netVars, sessVars, fsVars, clientVars>>
    /\ UNCHANGED <<cancelVars, send_failed, execVars>>

\* ~ThreadPool: stop = true; }
DtorStop ==
    /\ mpc = "dtor_stop"
    /\ stop' = TRUE
    /\ queuedAtStop' = Range(tasks)
    /\ queue_mutex' = 0
    /\ mpc' = "dtor_notify"
    /\ UNCHANGED <<tasks, wpc, wtask, ntask, executed>>
    /\ UNCHANGED <<netVars, sessVars, fsVars, clientVars>>
    /\ UNCHANGED <<cancelVars, send_failed, execVars>>

\* ~ThreadPool: condition.notify_all()
DtorNotifyAll ==
    /\ mpc = "dtor_notify"
    /\ NotifyAll
    /\ mpc' = "dtor_join"
    /\ UNCHANGED <<stop, tasks, queue_mutex, wtask, ntask, executed,
                   queuedAtStop>>
    /\ UNCHANGED <<netVars, sessVars, fsVars, clientVars>>
    /\ UNCHANGED <<cancelVars, send_failed, execVars>>

\* a destructor that returns without waiting for the worker threads
DtorJoin_NoWait ==
    /\ mpc = "dtor_join"
    /\ mpc' = "dtor_done"
    /\ UNCHANGED <<stop, tasks, queue_mutex, wpc, wtask, ntask, executed,
                   queuedAtStop>>
    /\ UNCHANGED <<netVars, sessVars, fsVars, clientVars>>
    /\ UNCHANGED <<cancelVars, send_failed, execVars>>

\* ~ThreadPool: for (worker : workers) worker.join(); returns once every
\* worker thread has returned from worker()
DtorJoin ==
    /\ mpc = "dtor_join"
    /\ \A w \in Workers : wpc[w] = "exited"
    /\ mpc' = "dtor_done"
    /\ UNCHANGED <<stop, tasks, queue_mutex, wpc, wtask, ntask, executed,
                   queuedAtStop>>
    /\ UNCHANGED <<netVars, sessVars, fsVars, clientVars>>
    /\ UNCHANGED <<cancelVars, send_failed, execVars>>

(***************************************************************************)
(* The filesystem of the server process.  A path is the sequence of the    *)
(* names from the root; names hold no '/'.                                 *)
(***************************************************************************)
DOT == <<".">>
DOTDOT == <<".", ".">>

EmptyMap == [p \in {} |-> <<>>]

Parent(p) == IF p = <<>> THEN <<>> ELSE SubSeq(p, 1, Len(p) - 1)

\* the path a name given to a system call denotes, relative to cwd
Resolve(name) ==
    IF name = DOT THEN cwd
    ELSE IF name = DOTDOT THEN Parent(cwd)
    ELSE Append(cwd, name)

IsDir(p) == p \in dirs

IsFile(p) == p \in DOMAIN files

\* file_exists(path): stat(path) == 0
file_exists(p) == IsDir(p) \/ IsFile(p)

\* the text getcwd returns for a path
RECURSIVE PathStr(_)
PathStr(p) ==
    IF p = <<>> THEN <<"/">>
    ELSE IF Len(p) = 1 THEN <<"/">> \o p[1]
    ELSE PathStr(Parent(p)) \o <<"/">> \o p[Len(p)]

\* the names readdir yields for the directory p, "." and ".." left out
Entries(p) ==
    {q[Len(q)] : q \in {r \in dirs \cup DOMAIN files :
                           r # <<>> /\ Parent(r) = p}}

\* the orders in which readdir may yield a set of names
Orders(S) ==
    {o \in [1..Cardinality(S) -> S] : {o[i] : i \in 1..Cardinality(S)} = S}

\* k bytes of value zero: the hole a write past the end of a file leaves
Zeros(k) == [i \in 1..k |-> "NUL"]

\* the content of a file after data is written at offset off
WriteAt(content, off, data) ==
    LET head == IF off <= Len(content) THEN SubSeq(content, 1, off)
                ELSE content \o Zeros(off - Len(content))
    IN  head \o data \o SubSeq(content, off + Len(data) + 1, Len(content))

(***************************************************************************)
(* The command handlers (client_handler.cpp).  A handler yields the        *)
(* buffers it gives to send, in order, and the state it leaves.            *)
(***************************************************************************)
\* a result that sends out and changes nothing
Reply(out) ==
    [out |-> out, cwd |-> cwd, dirs |-> dirs, files |-> files,
     put |-> FALSE, pf |-> <<>>]

\* a read loop without the send of the last, short read
RECURSIVE FileChunks_NoTail(_)
FileChunks_NoTail(content) ==
    IF Len(content) >= BUFFER_SIZE
    THEN <<SubSeq(content, 1, BUFFER_SIZE)>>
         \o FileChunks_NoTail(SubSeq(content, BUFFER_SIZE + 1, Len(content)))
    ELSE <<>>

\* the buffers handle_get sends for a file: while (file.read(buffer,
\* sizeof(buffer))) send(gcount); if (file.gcount() > 0) send(gcount)
RECURSIVE FileChunks(_)
FileChunks(content) ==
    IF Len(content) >= BUFFER_SIZE
    THEN <<SubSeq(content, 1, BUFFER_SIZE)>>
         \o FileChunks(SubSeq(content, BUFFER_SIZE + 1, Len(content)))
    ELSE IF Len(content) > 0 THEN <<content>>
    ELSE <<>>

\* a handle_put that announces the upload before it opens the file
handle_put_ReadyFirst(filename) ==
    IF filename = <<>>
    THEN Reply(<<send_response2(S_ERROR, Msg.FileNameNotSpecified)>>)
    ELSE LET p == Resolve(filename) IN
         IF IsDir(p) \/ p \in denied
         THEN Reply(<<send_response2(S_SUCCESS, S_READY_TO_RECEIVE),
                      send_response2(S_ERROR, Msg.UnableToCreateFile)>>)
         ELSE [out |-> <<send_response2(S_SUCCESS, S_READY_TO_RECEIVE)>>,
               cwd |-> cwd, dirs |-> dirs,
               files |-> (p :> <<>>) @@ files,
               put |-> TRUE, pf |-> p]

\* a handle_put that opens the destination to append to it
handle_put_Append(filename) ==
    IF filename = <<>>
    THEN Reply(<<send_response2(S_ERROR, Msg.FileNameNotSpecified)>>)
    ELSE LET p == Resolve(filename) IN
         IF IsDir(p) \/ p \in denied
         THEN Reply(<<send_response2(S_ERROR, Msg.UnableToCreateFile)>>)
         ELSE [out |-> <<send_response2(S_SUCCESS, S_READY_TO_RECEIVE)>>,
               cwd |-> cwd, dirs |-> dirs,
               files |-> files @@ (p :> <<>>),
               put |-> TRUE, pf |-> p]

\* handle_put up to the receive loop
handle_put(filename) ==
    IF filename = <<>>
    THEN Reply(<<send_response2(S_ERROR, Msg.FileNameNotSpecified)>>)
    ELSE LET p == Resolve(filename) IN
         IF IsDir(p) \/ p \in denied
         THEN Reply(<<send_response2(S_ERROR, Msg.UnableToCreateFile)>>)
         ELSE [out |-> <<send_response2(S_SUCCESS, S_READY_TO_RECEIVE)>>,
               cwd |-> cwd, dirs |-> dirs,
               files |-> (p :> <<>>) @@ files,
               put |-> TRUE, pf |-> p]

\* a handle_get that announces the transfer before it opens the file
handle_get_StartFirst(filename) ==
    IF filename = <<>>
    THEN Reply(<<send_response2(S_ERROR, Msg.FileNameNotSpecified)>>)
    ELSE LET p == Resolve(filename) IN
         IF ~file_exists(p)
         THEN Reply(<<send_response2(S_ERROR, Msg.FileNotFound)>>)
         ELSE IF p \in denied
         THEN Reply(<<send_response2(S_SUCCESS, S_FILE_TRANSFER_START),
                      send_response2(S_ERROR, Msg.UnableToOpenFile)>>)
         ELSE Reply(<<send_response2(S_SUCCESS, S_FILE_TRANSFER_START)>>
                    \o FileChunks(IF IsFile(p) THEN files[p] ELSE <<>>)
                    \o <<send_response1(S_FILE_TRANSFER_END)>>)

handle_get(filename) ==
    IF filename = <<>>
    THEN Reply(<<send_response2(S_ERROR, Msg.FileNameNotSpecified)>>)
    ELSE LET p == Resolve(filename) IN
         IF ~file_exists(p)
         THEN Reply(<<send_response2(S_ERROR, Msg.FileNotFound)>>)
         ELSE IF p \in denied
         THEN Reply(<<send_response2(S_ERROR, Msg.UnableToOpenFile)>>)
         ELSE Reply(<<send_response2(S_SUCCESS, S_FILE_TRANSFER_START)>>
                    \o FileChunks(IF IsFile(p) THEN files[p] ELSE <<>>)
                    \o <<send_response1(S_FILE_TRANSFER_END)>>)

\* a handle_mkdir without the stat of the name: mkdir on a name that
\* exists is reported as a success
handle_mkdir_NoStat(directory_name) ==
    IF directory_name = <<>>
    THEN Reply(<<send_response2(S_ERROR, Msg.DirNameNotSpecified)>>)
    ELSE LET p == Resolve(directory_name) IN
         IF p \notin denied
         THEN [Reply(<<send_response2(S_SUCCESS, Msg.DirCreated)>>)
                  EXCEPT !.dirs = dirs \cup {p}]
         ELSE Reply(<<send_response2(S_ERROR, Msg.UnableToCreateDir)>>)

\* a handle_mkdir that goes on to create_directory after it has reported
\* that the name exists
handle_mkdir_NoReturn(directory_name) ==
    IF directory_name = <<>>
    THEN Reply(<<send_response2(S_ERROR, Msg.DirNameNotSpecified)>>)
    ELSE LET p == Resolve(directory_name) IN
         IF file_exists(p)
         THEN Reply(<<IF IsDir(p)
                      THEN send_response2(S_ERROR, Msg.DirAlreadyExists)
                      ELSE send_response2(S_ERROR, Msg.FileSameNameExists),
                      send_response2(S_ERROR, Msg.UnableToCreateDir)>>)
         ELSE IF p \notin denied
         THEN [Reply(<<send_response2(S_SUCCESS, Msg.DirCreated)>>)
                  EXCEPT !.dirs = dirs \cup {p}]
         ELSE Reply(<<send_response2(S_ERROR, Msg.UnableToCreateDir)>>)

handle_mkdir(directory_name) ==
    IF directory_name = <<>>
    THEN Reply(<<send_response2(S_ERROR, Msg.DirNameNotSpecified)>>)
    ELSE LET p == Resolve(directory_name) IN
         IF file_exists(p)
         THEN IF IsDir(p)
              THEN Reply(<<send_response2(S_ERROR, Msg.DirAlreadyExists)>>)
              ELSE Reply(<<send_response2(S_ERROR, Msg.FileSameNameExists)>>)
         ELSE IF p \notin denied
         THEN [Reply(<<send_response2(S_SUCCESS, Msg.DirCreated)>>)
                  EXCEPT !.dirs = dirs \cup {p}]
         ELSE Reply(<<send_response2(S_ERROR, Msg.UnableToCreateDir)>>)

\* a handle_delete without file_exists: the failure of remove is what
\* reports a name that is not there
handle_delete_NoExistTest(filename) ==
    IF filename = <<>>
    THEN Reply(<<send_response2(S_ERROR, Msg.FileNameNotSpecified)>>)
    ELSE LET p == Resolve(filename) IN
         IF IsDir(p)
         THEN Reply(<<send_response2(S_ERROR, Msg.PathIsDirectory)>>)
         ELSE IF IsFile(p) /\ p \notin denied
         THEN [Reply(<<send_response2(S_SUCCESS, Msg.FileDeleted)>>)
                  EXCEPT !.files = [q \in DOMAIN files \ {p} |-> files[q]]]
         ELSE Reply(<<send_response2(S_ERROR, Msg.UnableToDeleteFile)>>)

handle_delete(filename) ==
    IF filename = <<>>
    THEN Reply(<<send_response2(S_ERROR, Msg.FileNameNotSpecified)>>)
    ELSE LET p == Resolve(filename) IN
         IF IsDir(p)
         THEN Reply(<<send_response2(S_ERROR, Msg.PathIsDirectory)>>)
         ELSE IF ~file_exists(p)
         THEN Reply(<<send_response2(S_ERROR, Msg.FileNotFound)>>)
         ELSE IF p \notin denied
         THEN [Reply(<<send_response2(S_SUCCESS, Msg.FileDeleted)>>)
                  EXCEPT !.files = [q \in DOMAIN files \ {p} |-> files[q]]]
         ELSE Reply(<<send_response2(S_ERROR, Msg.UnableToDeleteFile)>>)

\* a handle_cd without the test of the empty argument
handle_cd_NoArgTest(directory) ==
    LET p == Resolve(directory) IN
    IF ~file_exists(p)
    THEN Reply(<<send_response2(S_ERROR, Msg.DirNotFound)>>)
    ELSE IF ~IsDir(p)
    THEN Reply(<<send_response2(S_ERROR, Msg.NotADirectory)>>)
    ELSE IF p \notin denied
    THEN [Reply(<<send_response1(Msg.DirChanged)>>) EXCEPT !.cwd = p]
    ELSE Reply(<<send_response2(S_ERROR, Msg.UnableToChangeDir)>>)

handle_cd(directory) ==
    IF directory = <<>>
    THEN Reply(<<send_response2(S_ERROR, Msg.DirNotSpecified)>>)
    ELSE LET p == Resolve(directory) IN
         IF ~file_exists(p)
         THEN Reply(<<send_response2(S_ERROR, Msg.DirNotFound)>>)
         ELSE IF ~IsDir(p)
         THEN Reply(<<send_response2(S_ERROR, Msg.NotADirectory)>>)
         ELSE IF p \notin denied
         THEN [Reply(<<send_response1(Msg.DirChanged)>>) EXCEPT !.cwd = p]
         ELSE Reply(<<send_response2(S_ERROR, Msg.UnableToChangeDir)>>)

\* handle_ls; order is the order in which readdir yields the entries
handle_ls(order) ==
    IF cwd \in denied
    THEN Reply(<<send_response2(S_ERROR, Msg.UnableToOpenDir)>>)
    ELSE LET file_list == Flatten([i \in 1..Len(order) |-> order[i] \o S_LF])
         IN  IF file_list = <<>>
             THEN Reply(<<send_response1(Msg.DirIsEmpty)>>)
             ELSE Reply(<<send_response1(file_list)>>)

\* handle_pwd; getcwd(cwd, sizeof(cwd)) needs room for the text and its NUL
handle_pwd ==
    IF Len(PathStr(cwd)) + 1 <= BUFFER_SIZE
    THEN Reply(<<send_response1(PathStr(cwd))>>)
    ELSE Reply(<<send_response2(S_ERROR, Msg.UnableToGetCwd)>>)

\* create_command_map: the names of the command map
command_map == {Kw.pwd, Kw.ls, Kw.cd, Kw.mkdir, Kw.delete, Kw.get, Kw.put}

\* execute_command: the command token of a line
CmdOf(command) ==
    LET space_pos == find(command, <<" ">>)
    IN  IF space_pos = npos THEN command ELSE substr(command, 0, space_pos)

\* execute_command: the argument of a line
ArgOf(command) ==
    LET space_pos == find(command, <<" ">>)
    IN  IF space_pos = npos THEN <<>>
        ELSE trim(substr_from(command, space_pos + 1))

\* execute_command(command, sock)
execute_command(command, order) ==
    LET cmd == CmdOf(command)
        arg == ArgOf(command)
    IN  IF cmd \in command_map
        THEN CASE cmd = Kw.pwd -> handle_pwd
               [] cmd = Kw.ls -> handle_ls(order)
               [] cmd = Kw.cd -> handle_cd(arg)
               [] cmd = Kw.mkdir -> handle_mkdir(arg)
               [] cmd = Kw.delete -> handle_delete(arg)
               [] cmd = Kw.get -> handle_get(arg)
               [] cmd = Kw.put -> handle_put(arg)
        ELSE Reply(<<send_response2(S_ERROR, Msg.InvalidCommand)>>)

(***************************************************************************)
(* The session engine: handle_client (client_handler.cpp), run as a task   *)
(* of the pool for one connection.                                         *)
(***************************************************************************)
Conns == TaskIds

\* the worker thread that is running handle_client for connection c
Running(c, w) == wpc[w] = "run" /\ wtask[w] = c

\* send on the socket of c of every buffer of out, in order
Send(c, out) == s2c' = [s2c EXCEPT ![c] = @ \o Flatten(out)]

\* recv(sock, buffer, cap, 0) returning n > 0: the first n bytes in flight
Received(c, n) == SubSeq(c2s[c], 1, n)

\* the size of a recv of at most cap bytes that returns all that is in flight
RecvAll(c, cap) == Min(Len(c2s[c]), cap)

Consume(c, n) == c2s' = [c2s EXCEPT ![c] = SubSeq(@, n + 1, Len(@))]

\* file.write(data, size) on the ofstream of handle_put
FileWrite(c, data) ==
    IF put_file[c] \in DOMAIN files
    THEN [files EXCEPT ![put_file[c]] = WriteAt(@, put_off[c], data)]
    ELSE files

\* the record of one turn of the session of a connection: the kind of
\* turn, the data recv returned, the buffers given to send, and the
\* directory the session's own cd commands have led it to
Turn(kind, data, out, dir) ==
    [turn |-> kind, data |-> data, out |-> out, dir |-> dir]

\* the directory of session c after a command with result R: changed by
\* a cd of c that succeeded, and by nothing else
OwnDir(c, command, R) ==
    IF CmdOf(command) = Kw.cd /\ R.out = <<send_response1(Msg.DirChanged)>>
    THEN R.cwd ELSE last[c].dir

\* a handle_client that reads what has arrived before it greets
SessGreeting_ReadFirst(c) ==
    /\ \E w \in Workers : Running(c, w)
    /\ spc[c] = "new"
    /\ Send(c, <<send_response1(S_welcome_msg)>>)
    /\ Consume(c, RecvAll(c, BUFFER_SIZE - 1))
    /\ spc' = [spc EXCEPT ![c] = "await"]
    /\ last' = [last EXCEPT ![c] =
          Turn("greeting", <<>>,
               <<send_response1(S_welcome_msg)>>,
               cwd)]
    /\ UNCHANGED <<poolVars, cclosed, leftover_data, put_file, put_off,
                   fsVars, clientVars>>
    /\ UNCHANGED <<cancelVars, send_failed, execVars>>

\* handle_client: send_response(sock, welcome_msg)
SessGreeting(c) ==
    /\ \E w \in Workers : Running(c, w)
    /\ spc[c] = "new"
    /\ Send(c, <<send_response1(S_welcome_msg)>>)
    /\ spc' = [spc EXCEPT ![c] = "await"]
    /\ last' = [last EXCEPT ![c] =
          Turn("greeting", <<>>,
               <<send_response1(S_welcome_msg)>>,
               cwd)]
    /\ UNCHANGED <<poolVars, c2s, cclosed, leftover_data, put_file, put_off,
                   fsVars, clientVars>>
    /\ UNCHANGED <<cancelVars, send_failed, execVars>>

\* handle_client: the sends of one turn of the loop whose command is not
\* quit: the empty line's reply, then execute_command
TurnReply(command, R) ==
    (IF command = <<>> THEN <<send_response1(<<>>)>> ELSE <<>>) \o R.out

\* handle_client: recv returns n bytes, the command is not quit
SessCommand(c, n) ==
    /\ \E w \in Workers : Running(c, w)
    /\ spc[c] = "await"
    /\ n \in 1..Min(Len(c2s[c]), BUFFER_SIZE - 1)
    /\ LET command == trim(Received(c, n)) IN
       /\ command # Kw.quit
       /\ \E order \in (IF CmdOf(command) = Kw.ls THEN Orders(Entries(cwd))
                        ELSE {<<>>}) :
             LET R == execute_command(command, order)
                 out == TurnReply(command, R)
             IN  /\ Send(c, out)
                 /\ cwd' = R.cwd
                 /\ dirs' = R.dirs
                 /\ files' = R.files
                 /\ spc' = [spc EXCEPT ![c] = IF R.put THEN "put" ELSE "await"]
                 /\ put_file' = [put_file EXCEPT ![c] = R.pf]
                 /\ put_off' = [put_off EXCEPT ![c] = 0]
                 /\ leftover_data' = [leftover_data EXCEPT ![c] = <<>>]
                 /\ last' = [last EXCEPT ![c] =
                       Turn("command", Received(c, n),
                            out,
                            OwnDir(c, command, R))]
    /\ Consume(c, n)
    /\ UNCHANGED <<poolVars, cclosed, denied, clientVars>>
    /\ UNCHANGED <<cancelVars, send_failed, execVars>>

\* a session that gives its worker back without closing its socket
CloseSession_KeepOpen(c) ==
    /\ spc' = spc
    /\ wpc' = [w \in Workers |-> IF Running(c, w) THEN "lock" ELSE wpc[w]]

\* handle_client: close(sock) after the loop; the task returns to worker()
CloseSession(c) ==
    /\ spc' = [spc EXCEPT ![c] = "closed"]
    /\ wpc' = [w \in Workers |-> IF Running(c, w) THEN "lock" ELSE wpc[w]]

\* a session that ends on every command whose name is quit, whatever
\* follows the name
SessQuit_AnyArgument(c, n) ==
    /\ \E w \in Workers : Running(c, w)
    /\ spc[c] = "await"
    /\ n \in 1..Min(Len(c2s[c]), BUFFER_SIZE - 1)
    /\ CmdOf(trim(Received(c, n))) = Kw.quit
    /\ Consume(c, n)
    /\ CloseSession(c)
    /\ last' = [last EXCEPT ![c] =
          Turn("quit", Received(c, n),
               <<>>,
               last[c].dir)]
    /\ UNCHANGED <<stop, tasks, queue_mutex, wtask, mpc, ntask, executed,
                   queuedAtStop, s2c, cclosed, leftover_data, put_file,
                   put_off, fsVars, clientVars>>
    /\ UNCHANGED <<cancelVars, send_failed, execVars>>

\* handle_client: recv returns n bytes, the command is quit
SessQuit(c, n) ==
    /\ \E w \in Workers : Running(c, w)
    /\ spc[c] = "await"
    /\ n \in 1..Min(Len(c2s[c]), BUFFER_SIZE - 1)
    /\ trim(Received(c, n)) = Kw.quit
    /\ Consume(c, n)
    /\ CloseSession(c)
    /\ last' = [last EXCEPT ![c] =
          Turn("quit", Received(c, n),
               <<>>,
               last[c].dir)]
    /\ UNCHANGED <<stop, tasks, queue_mutex, wtask, mpc, ntask, executed,
                   queuedAtStop, s2c, cclosed, leftover_data, put_file,
                   put_off, fsVars, clientVars>>
    /\ UNCHANGED <<cancelVars, send_failed, execVars>>

\* a handle_client whose recv gives up on a peer that is silent
SessDisconnect_Timeout(c) ==
    /\ \E w \in Workers : Running(c, w)
    /\ spc[c] = "await"
    /\ c2s[c] = <<>>
    /\ CloseSession(c)
    /\ last' = [last EXCEPT ![c] =
          Turn("eof", <<>>,
               <<>>,
               last[c].dir)]
    /\ UNCHANGED <<stop, tasks, queue_mutex, wtask, mpc, ntask, executed,
                   queuedAtStop, netVars, leftover_data, put_file, put_off,
                   fsVars, clientVars>>
    /\ UNCHANGED <<cancelVars, send_failed, execVars>>

\* handle_client: recv returns 0, the peer has closed
SessDisconnect(c) ==
    /\ \E w \in Workers : Running(c, w)
    /\ spc[c] = "await"
    /\ c2s[c] = <<>>
    /\ cclosed[c]
    /\ CloseSession(c)
    /\ last' = [last EXCEPT ![c] =
          Turn("eof", <<>>,
               <<>>,
               last[c].dir)]
    /\ UNCHANGED <<stop, tasks, queue_mutex, wtask, mpc, ntask, executed,
                   queuedAtStop, netVars, leftover_data, put_file, put_off,
                   fsVars, clientVars>>
    /\ UNCHANGED <<cancelVars, send_failed, execVars>>

\* a turn of the loop that writes all it holds when it finds the marker
put_received_WriteAll(leftover, data) ==
    LET buffer == leftover \o data
        end_position == find(buffer, MARKER)
    IN  IF end_position # npos
        THEN [done |-> TRUE, write |-> buffer, leftover |-> buffer]
        ELSE [done |-> FALSE, write |-> buffer, leftover |-> <<>>]

\* handle_put: one turn of the receive loop on the received data:
\* what is written to the file, what leftover_data holds afterwards and
\* whether the loop ends
put_received(leftover, data) ==
    LET buffer == leftover \o data
        end_position == find(buffer, MARKER)
    IN  IF end_position # npos
        THEN [done |-> TRUE, write |-> substr(buffer, 0, end_position),
              leftover |-> buffer]
        ELSE [done |-> FALSE, write |-> buffer, leftover |-> <<>>]

\* a reply after the loop that does not look at leftover_data
put_reply_Completed(leftover) ==
    send_response2(S_SUCCESS, Msg.FileTransferCompleted)

\* handle_put: the reply after the loop
put_reply(leftover) ==
    IF leftover = <<>>
    THEN send_response2(S_ERROR, Msg.FileTransferFailed)
    ELSE send_response2(S_SUCCESS, Msg.FileTransferCompleted)

\* handle_put: recv returns n bytes
SessPutRecv(c, n) ==
    /\ \E w \in Workers : Running(c, w)
    /\ spc[c] = "put"
    /\ n \in 1..Min(Len(c2s[c]), BUFFER_SIZE)
    /\ LET P == put_received(leftover_data[c], Received(c, n)) IN
       /\ files' = FileWrite(c, P.write)
       /\ put_off' = [put_off EXCEPT ![c] = @ + Len(P.write)]
       /\ IF P.done
          THEN /\ Send(c, <<put_reply(P.leftover)>>)
               /\ spc' = [spc EXCEPT ![c] = "await"]
               /\ leftover_data' = [leftover_data EXCEPT ![c] = <<>>]
               /\ last' = [last EXCEPT ![c] =
                     Turn("put", Received(c, n),
                          <<put_reply(P.leftover)>>,
                          last[c].dir)]
          ELSE /\ leftover_data' = [leftover_data EXCEPT ![c] = P.leftover]
               /\ last' = [last EXCEPT ![c] =
                     Turn("put", Received(c, n),
                          <<>>,
                          last[c].dir)]
               /\ UNCHANGED <<s2c, spc>>
    /\ Consume(c, n)
    /\ UNCHANGED <<poolVars, cclosed, put_file, cwd, dirs, denied,
                   clientVars>>
    /\ UNCHANGED <<cancelVars, send_failed, execVars>>

\* handle_put: recv returns 0, the peer has closed
SessPutEof(c) ==
    /\ \E w \in Workers : Running(c, w)
    /\ spc[c] = "put"
    /\ c2s[c] = <<>>
    /\ cclosed[c]
    /\ Send(c, <<put_reply(leftover_data[c])>>)
    /\ spc' = [spc EXCEPT ![c] = "await"]
    /\ leftover_data' = [leftover_data EXCEPT ![c] = <<>>]
    /\ last' = [last EXCEPT ![c] =
          Turn("eof", <<>>,
               <<put_reply(leftover_data[c])>>,
               last[c].dir)]
    /\ UNCHANGED <<poolVars, c2s, cclosed, put_file, put_off, fsVars,
                   clientVars>>
    /\ UNCHANGED <<cancelVars, send_failed, execVars>>

(***************************************************************************)
(* The cancellation side-channel: handle_terminate_requests                *)
(* (myftpserver.cpp), run on a detached thread of the server process.      *)
(***************************************************************************)
\* the largest int; std::stoi throws std::out_of_range beyond it
INT_MAX == 2147483647

\* the decimal digits, DigitChars[d + 1] being the digit d
DigitChars == <<"0", "1", "2", "3", "4", "5", "6", "7", "8", "9">>

\* std::stoi(str) for a text without a sign: white space is skipped, the
\* digits that follow are the number; without a digit it throws
\* std::invalid_argument, beyond INT_MAX std::out_of_range (ok is FALSE)
stoi(str) ==
    LET start == find_first_not_of(str, Whitespace)
        text == IF start = npos THEN <<>> ELSE substr_from(str, start)
        IsDigit(ch) == \E d \in 1..10 : DigitChars[d] = ch
        DigitOf(ch) == (CHOOSE d \in 1..10 : DigitChars[d] = ch) - 1
        stops == {i \in 1..Len(text) : ~IsDigit(text[i])}
        nd == IF stops = {} THEN Len(text) ELSE SetMin(stops) - 1
        Shift(v, d) ==
            IF v = -1 \/ v > (INT_MAX - d) \div 10 THEN -1 ELSE v * 10 + d
        acc[i \in 0..nd] ==
            IF i = 0 THEN 0 ELSE Shift(acc[i - 1], DigitOf(text[i]))
    IN  IF nd = 0 \/ acc[nd] = -1
        THEN [ok |-> FALSE, value |-> 0]
        ELSE [ok |-> TRUE, value |-> acc[nd]]

\* the command identifiers of the model are 1..MaxId
MaxId == 2

\* std::stoi(buffer + 10) after recv has put data in buffer and a NUL
\* after it: the text from offset 10 on; when the data is shorter than 10
\* bytes, buffer + 10 lies beyond the NUL, in bytes this recv has not
\* written, and any outcome is possible
ParseOutcomes(data) ==
    IF Len(data) >= 10
    THEN {stoi(substr_from(data, 10))}
    ELSE {[ok |-> TRUE, value |-> i] : i \in (1..MaxId)}
            \cup {[ok |-> FALSE, value |-> 0]}

\* the process is terminated (std::terminate after an exception that
\* leaves a thread, or a signal whose action is to terminate): all its
\* threads are gone and the kernel closes its sockets
Killed ==
    /\ spc' = [c \in Conns |-> "killed"]
    /\ wpc' = [w \in Workers |-> "killed"]
    /\ mpc' = "killed"

\* a canceller connects to the terminate port and sends data (no data:
\* it closes at once)
TermConnect(data) ==
    /\ term_sock \in {"none", "closed"}
    /\ mpc # "killed"
    /\ term_sock' = "open"
    /\ term_in' = data
    /\ term_out' = <<>>
    /\ UNCHANGED <<poolVars, netVars, sessVars, fsVars, clientVars,
                   active_commands, term_last, term_nul, send_failed,
                   execVars>>

\* a handler of a request that marks the entry and leaves it in the map
TermRequest_KeepEntry ==
    /\ term_sock = "open"
    /\ mpc # "killed"
    /\ IF term_in = <<>>
       THEN UNCHANGED <<active_commands, term_last>>
       ELSE \E r \in ParseOutcomes(term_in) :
               /\ r.ok
               /\ LET command_id == r.value IN
                  /\ active_commands' =
                        IF command_id \in DOMAIN active_commands
                        THEN [active_commands EXCEPT ![command_id] = FALSE]
                        ELSE active_commands
                  /\ term_last' =
                        [id |-> command_id,
                         found |-> command_id \in DOMAIN active_commands]
    /\ term_nul' = IF term_in = <<>> THEN term_nul ELSE Len(term_in)
    /\ term_in' = <<>>
    /\ term_sock' = "closed"
    /\ UNCHANGED <<poolVars, netVars, sessVars, fsVars, clientVars,
                   term_out, send_failed, execVars>>

\* handle_terminate_requests: one turn of the loop after accept: recv,
\* buffer[bytes_received] = '\0', std::stoi(buffer + 10) returns, the entry of command_id is erased if
\* there is one, close(client_sock)
TermRequest ==
    /\ term_sock = "open"
    /\ mpc # "killed"
    /\ IF term_in = <<>>
       THEN UNCHANGED <<active_commands, term_last>>
       ELSE \E r \in ParseOutcomes(term_in) :
               /\ r.ok
               /\ LET command_id == r.value IN
                  /\ active_commands' =
                        IF command_id \in DOMAIN active_commands
                        THEN [i \in DOMAIN active_commands \ {command_id}
                                 |-> active_commands[i]]
                        ELSE active_commands
                  /\ term_last' =
                        [id |-> command_id,
                         found |-> command_id \in DOMAIN active_commands]
    /\ term_nul' = IF term_in = <<>> THEN term_nul ELSE Len(term_in)
    /\ term_in' = <<>>
    /\ term_sock' = "closed"
    /\ UNCHANGED <<poolVars, netVars, sessVars, fsVars, clientVars,
                   term_out, send_failed, execVars>>

\* handle_terminate_requests: std::stoi(buffer + 10) throws; nothing
\* catches the exception on the detached thread and std::terminate ends
\* the process.  The same end is one of the outcomes of the write of the
\* NUL behind the buffer, when recv has filled all of it
TermAbort ==
    /\ term_sock = "open"
    /\ mpc # "killed"
    /\ term_in # <<>>
    /\ \/ \E r \in ParseOutcomes(term_in) : ~r.ok
       \/ Len(term_in) >= BUFFER_SIZE
    /\ Killed
    /\ term_sock' = "reset"
    /\ term_nul' = Len(term_in)
    /\ UNCHANGED <<stop, tasks, queue_mutex, wtask, ntask, executed,
                   queuedAtStop, netVars, leftover_data, put_file, put_off,
                   last, fsVars, clientVars, active_commands, term_in,
                   term_out, term_last, send_failed, execVars>>

(***************************************************************************)
(* The client (myftp.cpp), connected on connection 1.                      *)
(***************************************************************************)
ClientConn == 1

\* the sizes a recv of at most cap bytes may return when avail bytes are in
\* flight: anything up to MaxSeg, or all there is
RecvSizes(avail, cap) ==
    {k \in 1..Min(avail, cap) : k <= MaxSeg \/ k = Min(avail, cap)}

\* send_command(sock, command)
send_command(command) ==
    c2s' = [c2s EXCEPT ![ClientConn] = @ \o command]

\* receive_response: recv(sock, message_buffer, BUFFER_SIZE - 1, 0) returns n
ClientReceived(n) == SubSeq(s2c[ClientConn], 1, n)

\* the size of a recv of at most cap bytes that returns all that is in flight
ClientAll(cap) == Min(Len(s2c[ClientConn]), cap)

ClientConsume(n) ==
    s2c' = [s2c EXCEPT ![ClientConn] = SubSeq(@, n + 1, Len(@))]

\* client_loop: the first receive_response, which reads the welcome message
ClientGreet(n) ==
    /\ cpc = "greet"
    /\ n \in 1..Min(Len(s2c[ClientConn]), BUFFER_SIZE - 1)
    /\ ClientConsume(n)
    /\ cpc' = "prompt"
    /\ UNCHANGED <<poolVars, c2s, cclosed, sessVars, fsVars, cfile, cname,
                   ncmd, typed, orig>>
    /\ UNCHANGED <<cancelVars, send_failed, execVars>>

\* client_loop: the user types quit
UserQuit ==
    /\ cpc = "prompt"
    /\ Len(typed) < MaxUserCmds
    /\ typed' = Append(typed, Kw.quit)
    /\ UNCHANGED ncmd
    /\ send_command(Kw.quit)
    /\ cclosed' = [cclosed EXCEPT ![ClientConn] = TRUE]
    /\ cpc' = "done"
    /\ UNCHANGED <<poolVars, s2c, sessVars, fsVars, cfile, cname, orig>>
    /\ UNCHANGED <<cancelVars, send_failed, execVars>>

\* client_loop: the user types put <filename>; handle_put up to its
\* receive_response
UserPut(filename) ==
    /\ cpc = "prompt"
    /\ Len(typed) < MaxUserCmds
    /\ typed' = Append(typed, C_put \o filename)
    /\ UNCHANGED ncmd
    /\ IF filename \in DOMAIN cfile
       THEN /\ send_command(C_put \o filename)
            /\ cpc' = "put_wait"
            /\ cname' = filename
            /\ orig' = cfile[filename]
       ELSE UNCHANGED <<c2s, cpc, cname, orig>>
    /\ UNCHANGED <<poolVars, s2c, cclosed, sessVars, fsVars, cfile>>
    /\ UNCHANGED <<cancelVars, send_failed, execVars>>

\* the buffers the client's handle_put sends for a file: while (file.read(
\* buffer, sizeof(buffer))) send(gcount); if (file.gcount() > 0) send(gcount)
RECURSIVE ClientChunks(_)
ClientChunks(content) ==
    IF Len(content) >= BUFFER_SIZE
    THEN <<SubSeq(content, 1, BUFFER_SIZE)>>
         \o ClientChunks(SubSeq(content, BUFFER_SIZE + 1, Len(content)))
    ELSE IF Len(content) > 0 THEN <<content>>
    ELSE <<>>

\* handle_put: the file, then end_message
PutSends(content) == ClientChunks(content) \o <<MARKER>>

\* handle_put: the response to put arrives; the file and the marker are sent
ClientPutReady(n) ==
    /\ cpc = "put_wait"
    /\ n \in 1..Min(Len(s2c[ClientConn]), BUFFER_SIZE - 1)
    /\ ClientConsume(n)
    /\ IF find(ClientReceived(n), C_READY) = 0
       THEN /\ send_command(Flatten(PutSends(cfile[cname])))
            /\ cpc' = "put_ack"
       ELSE /\ cpc' = "prompt"
            /\ UNCHANGED c2s
    /\ UNCHANGED <<poolVars, cclosed, sessVars, fsVars, cfile, cname, ncmd,
                   typed, orig>>
    /\ UNCHANGED <<cancelVars, send_failed, execVars>>

\* handle_put: the last receive_response
ClientPutAck(n) ==
    /\ cpc = "put_ack"
    /\ n \in 1..Min(Len(s2c[ClientConn]), BUFFER_SIZE - 1)
    /\ ClientConsume(n)
    /\ cpc' = "prompt"
    /\ UNCHANGED <<poolVars, c2s, cclosed, sessVars, fsVars, cfile, cname,
                   ncmd, typed, orig>>
    /\ UNCHANGED <<cancelVars, send_failed, execVars>>

\* client_loop: the user types get <filename>; handle_get up to its
\* receive_response
UserGet(filename) ==
    /\ cpc = "prompt"
    /\ Len(typed) < MaxUserCmds
    /\ typed' = Append(typed, C_get \o filename)
    /\ UNCHANGED ncmd
    /\ send_command(C_get \o filename)
    /\ cpc' = "get_wait"
    /\ cname' = filename
    /\ UNCHANGED <<poolVars, s2c, cclosed, sessVars, fsVars, cfile, orig>>
    /\ UNCHANGED <<cancelVars, send_failed, execVars>>

\* handle_get: the response to get arrives; on FILE_TRANSFER_START the local
\* file is created (truncated), whatever else the read returned is dropped
ClientGetStart(n) ==
    /\ cpc = "get_wait"
    /\ n \in 1..Min(Len(s2c[ClientConn]), BUFFER_SIZE - 1)
    /\ ClientConsume(n)
    /\ IF find(ClientReceived(n), C_START) = 0
       THEN /\ cfile' = (cname :> <<>>) @@ cfile
            /\ cpc' = "get_loop"
       ELSE /\ cpc' = "prompt"
            /\ UNCHANGED cfile
    /\ UNCHANGED <<poolVars, c2s, cclosed, sessVars, fsVars, cname, ncmd,
                   typed, orig>>
    /\ UNCHANGED <<cancelVars, send_failed, execVars>>

\* handle_get: one turn of the receive loop on a chunk: what is written and
\* whether the loop ends
get_received(chunk) ==
    LET end_position == find(chunk, MARKER)
    IN  IF end_position # npos
        THEN [done |-> TRUE, write |-> substr(chunk, 0, end_position)]
        ELSE [done |-> FALSE, write |-> chunk]

\* handle_get: recv(sock, buffer, BUFFER_SIZE, 0) returns n bytes
ClientGetRecv(n) ==
    /\ cpc = "get_loop"
    /\ n \in 1..Min(Len(s2c[ClientConn]), BUFFER_SIZE)
    /\ ClientConsume(n)
    /\ LET G == get_received(ClientReceived(n)) IN
       /\ cfile' = [cfile EXCEPT ![cname] = @ \o G.write]
       /\ cpc' = IF G.done THEN "prompt" ELSE "get_loop"
    /\ UNCHANGED <<poolVars, c2s, cclosed, sessVars, fsVars, cname, ncmd,
                   typed, orig>>
    /\ UNCHANGED <<cancelVars, send_failed, execVars>>

\* client_loop: the user types any other command line
UserOther(command) ==
    /\ cpc = "prompt"
    /\ Len(typed) < MaxUserCmds
    /\ typed' = Append(typed, command)
    /\ UNCHANGED ncmd
    /\ send_command(command)
    /\ cpc' = "resp_wait"
    /\ UNCHANGED <<poolVars, s2c, cclosed, sessVars, fsVars, cfile, cname,
                   orig>>
    /\ UNCHANGED <<cancelVars, send_failed, execVars>>

\* client_loop: the receive_response after any other command
ClientResponse(n) ==
    /\ cpc = "resp_wait"
    /\ n \in 1..Min(Len(s2c[ClientConn]), BUFFER_SIZE - 1)
    /\ ClientConsume(n)
    /\ cpc' = "prompt"
    /\ UNCHANGED <<poolVars, c2s, cclosed, sessVars, fsVars, cfile, cname,
                   ncmd, typed, orig>>
    /\ UNCHANGED <<cancelVars, send_failed, execVars>>

(***************************************************************************)
(* States of the parts a specification leaves alone.                       *)
(***************************************************************************)
NetIdle ==
    /\ c2s = [c \in Conns |-> <<>>]
    /\ s2c = [c \in Conns |-> <<>>]
    /\ cclosed = [c \in Conns |-> FALSE]

SessIdle ==
    /\ spc = [c \in Conns |-> "new"]
    /\ leftover_data = [c \in Conns |-> <<>>]
    /\ put_file = [c \in Conns |-> <<>>]
    /\ put_off = [c \in Conns |-> 0]
    /\ last = [c \in Conns |-> Turn("none", <<>>, <<>>, <<>>)]

FsIdle ==
    /\ cwd = <<>>
    /\ dirs = {<<>>}
    /\ files = EmptyMap
    /\ denied = {}

ClientIdle ==
    /\ cpc = "off"
    /\ cfile = EmptyMap
    /\ cname = <<>>
    /\ ncmd = [c \in Conns |-> 0]
    /\ typed = <<>>
    /\ orig = <<>>

\* no request on the terminate port yet, nothing in active_commands, no
\* send has failed
CancelIdle ==
    /\ active_commands = EmptyMap
    /\ term_sock = "none"
    /\ term_in = <<>>
    /\ term_out = <<>>
    /\ term_last = [id |-> 0, found |-> FALSE]
    /\ term_nul = 0
    /\ send_failed = [c \in Conns |-> 0]

\* execute_command has not been called yet and no handler is running
ExecIdle ==
    /\ static_guard = "none"
    /\ static_map = {}
    /\ static_calls = 0
    /\ epc = [c \in Conns |-> "idle"]
    /\ mkdir_at = [c \in Conns |-> {}]

(***************************************************************************)
(* SpecPool: a ThreadPool whose owner submits tasks and then destroys it.  *)
(* A task is any callable: it returns (TaskReturn) or never does.          *)
(***************************************************************************)
InitPool ==
    /\ PoolInit
    /\ NetIdle /\ SessIdle /\ FsIdle /\ ClientIdle
    /\ CancelIdle /\ ExecIdle

NextPool ==
    \/ \E w \in Workers : WorkerLock(w)
    \/ \E w \in Workers : WorkerBlock(w)
    \/ \E w \in Workers : WorkerSpuriousWake(w)
    \/ \E w \in Workers : WorkerRelock(w)
    \/ \E w \in Workers : WorkerReturn(w)
    \/ \E w \in Workers : WorkerDequeue(w)
    \/ \E w \in Workers : TaskReturn(w)
    \/ Submit
    \/ EnqueueLock
    \/ EnqueuePush
    \/ EnqueueNotify
    \/ DtorBegin
    \/ DtorLock
    \/ DtorStop
    \/ DtorNotifyAll
    \/ DtorJoin

SpecPool == InitPool /\ [][NextPool]_vars

(***************************************************************************)
(* SpecXfer: the client of the repository on one connection, served by     *)
(* worker 1.  The user types up to MaxUserCmds commands.  A command and    *)
(* its one-line reply are read whole; the streams of a transfer are cut    *)
(* into reads: the upload and the body of a download as RecvSizes allows,  *)
(* the head of a download anywhere.                                        *)
(***************************************************************************)
Bytes == {"a", "F"}

\* the sequences over S of length at most n
RECURSIVE SeqsUpTo(_, _)
SeqsUpTo(S, n) ==
    IF n = 0 THEN {<<>>}
    ELSE LET shorter == SeqsUpTo(S, n - 1)
         IN  shorter \cup {Append(s, x) : s \in shorter, x \in S}

\* k copies of s
RECURSIVE Rep(_, _)
Rep(s, k) ==
    IF k = 0 THEN <<>>
    ELSE LET h == Rep(s, k \div 2)
         IN  IF k % 2 = 0 THEN h \o h ELSE h \o h \o s

\* a file of n bytes
LongFile(n) == SubSeq(Rep(<<"a", "F">>, (n + 1) \div 2), 1, n)

ShortContents == SeqsUpTo(Bytes, MaxLen)

NameF == <<"f">>
NameG == <<"g">>

InitXfer ==
    /\ stop = FALSE
    /\ tasks = <<>>
    /\ queue_mutex = 0
    /\ wpc = [w \in Workers |-> IF w = 1 THEN "run" ELSE "blocked"]
    /\ wtask = [w \in Workers |-> IF w = 1 THEN ClientConn ELSE 0]
    /\ mpc = "idle"
    /\ ntask = 1
    /\ executed = [t \in TaskIds |-> IF t = ClientConn THEN 1 ELSE 0]
    /\ queuedAtStop = {}
    /\ NetIdle /\ SessIdle
    /\ cwd = <<>>
    /\ dirs = {<<>>}
    /\ files = EmptyMap
    /\ denied = {}
    /\ cpc = "greet"
    /\ cfile \in {(NameF :> x) : x \in ShortContents}
    /\ cname = <<>>
    /\ ncmd = [c \in Conns |-> 0]
    /\ typed = <<>>
    /\ orig = <<>>
    /\ CancelIdle /\ ExecIdle

\* the server's recv in handle_put returns a part of the stream
XferPutRecv ==
    \E n \in RecvSizes(Len(c2s[ClientConn]), BUFFER_SIZE) :
       SessPutRecv(ClientConn, n)

\* the client's first recv in handle_get ends anywhere in the stream
XferGetStart ==
    \E n \in 1..ClientAll(BUFFER_SIZE - 1) : ClientGetStart(n)

\* the client's recv in the loop of handle_get returns a part of the stream
XferGetRecv ==
    \E n \in RecvSizes(Len(s2c[ClientConn]), BUFFER_SIZE) : ClientGetRecv(n)

NextXfer ==
    \/ SessGreeting(ClientConn)
    \/ SessCommand(ClientConn, RecvAll(ClientConn, BUFFER_SIZE - 1))
    \/ SessQuit(ClientConn, RecvAll(ClientConn, BUFFER_SIZE - 1))
    \/ XferPutRecv
    \/ ClientGreet(ClientAll(BUFFER_SIZE - 1))
    \/ ClientPutReady(ClientAll(BUFFER_SIZE - 1))
    \/ ClientPutAck(ClientAll(BUFFER_SIZE - 1))
    \/ XferGetStart
    \/ XferGetRecv
    \/ ClientResponse(ClientAll(BUFFER_SIZE - 1))
    \/ UserQuit
    \/ UserPut(NameF)
    \/ \E name \in {NameF, NameG} : UserGet(name)
    \/ UserOther(Kw.pwd)

SpecXfer == InitXfer /\ [][NextXfer]_vars


(***************************************************************************)
(* SpecSession: one connection served by worker 1.  The peer is any        *)
(* program: it sends up to MaxCmds messages drawn from Inputs, each after  *)
(* the server has taken the one before, and may close.  The server's recv  *)
(* returns everything in flight, up to the capacity of its buffer.         *)
(***************************************************************************)
NameD == <<"d">>
NameE == <<"e">>
NameH == <<"h">>
NameX == <<"x">>

\* a command line as a peer writes it
Line(keyword, argument) ==
    keyword \o (IF argument = <<>> THEN <<>> ELSE <<" ">> \o argument) \o S_LF

\* a file longer than one buffer of handle_get, by a short last chunk
LongContent == LongFile(BUFFER_SIZE + 1)

\* a file of exactly one buffer of handle_get
FullContent == LongFile(BUFFER_SIZE)

SessionContents == {<<>>, <<"a">>, FullContent, LongContent}

Inputs ==
    {Line(Kw.pwd, <<>>), Line(Kw.ls, <<>>), Line(Kw.quit, <<>>),
     Line(Kw.cd, NameD), Line(Kw.cd, NameX), Line(Kw.cd, NameF),
     Line(Kw.cd, <<>>),
     Line(Kw.mkdir, NameE), Line(Kw.mkdir, NameD), Line(Kw.mkdir, <<>>),
     Line(Kw.delete, NameF), Line(Kw.delete, NameD), Line(Kw.delete, NameX),
     Line(Kw.delete, <<>>),
     Line(Kw.get, NameF), Line(Kw.get, NameX), Line(Kw.get, <<>>),
     Line(Kw.put, NameH), Line(Kw.put, NameD), Line(Kw.put, <<>>),
     S_LF, Line(NameX, <<>>), <<"a">> \o MARKER, Line(Kw.quit, NameX)}

\* the paths on which the system calls of the server fail
DeniedPaths == {<<>>, <<NameD>>, <<NameE>>, <<NameF>>, <<NameH>>}

\* the peer of connection c writes data to its socket
EnvSend(c, data) ==
    /\ spc[c] \in {"await", "put"}
    /\ c2s[c] = <<>>
    /\ ~cclosed[c]
    /\ ncmd[c] < MaxCmds
    /\ ncmd' = [ncmd EXCEPT ![c] = @ + 1]
    /\ c2s' = [c2s EXCEPT ![c] = data]
    /\ UNCHANGED <<poolVars, s2c, cclosed, sessVars, fsVars, cpc, cfile,
                   cname, typed, orig>>
    /\ UNCHANGED <<cancelVars, send_failed, execVars>>

\* the peer of connection c closes its socket
EnvClose(c) ==
    /\ spc[c] \in {"await", "put"}
    /\ c2s[c] = <<>>
    /\ ~cclosed[c]
    /\ cclosed' = [cclosed EXCEPT ![c] = TRUE]
    /\ UNCHANGED <<poolVars, c2s, s2c, sessVars, fsVars, clientVars>>
    /\ UNCHANGED <<cancelVars, send_failed, execVars>>

InitSession ==
    /\ stop = FALSE
    /\ tasks = <<>>
    /\ queue_mutex = 0
    /\ wpc = [w \in Workers |-> IF w = 1 THEN "run" ELSE "blocked"]
    /\ wtask = [w \in Workers |-> IF w = 1 THEN 1 ELSE 0]
    /\ mpc = "idle"
    /\ ntask = 1
    /\ executed = [t \in TaskIds |-> IF t = 1 THEN 1 ELSE 0]
    /\ queuedAtStop = {}
    /\ NetIdle /\ SessIdle /\ ClientIdle
    /\ cwd = <<>>
    /\ dirs = {<<>>, <<NameD>>}
    /\ files \in {(<<NameF>> :> x) : x \in SessionContents}
    /\ denied \in {{}, DeniedPaths}
    /\ CancelIdle /\ ExecIdle

NextSession ==
    \/ SessGreeting(1)
    \/ SessCommand(1, RecvAll(1, BUFFER_SIZE - 1))
    \/ SessQuit(1, RecvAll(1, BUFFER_SIZE - 1))
    \/ SessPutRecv(1, RecvAll(1, BUFFER_SIZE))
    \/ SessDisconnect(1)
    \/ SessPutEof(1)
    \/ \E data \in Inputs : EnvSend(1, data)
    \/ EnvClose(1)

SpecSession == InitSession /\ [][NextSession]_vars

(***************************************************************************)
(* SpecPoolFair: SpecPool with the progress the threads are given.  A      *)
(* thread that can take a step is scheduled (weak fairness of the steps    *)
(* of worker() that hold the mutex or follow a notify, and of the steps of *)
(* enqueue); a thread waiting for queue_mutex gets it when it is released  *)
(* again and again (strong fairness of EnqueueLock).  No task is required  *)
(* to return, and nobody is required to call enqueue or the destructor.    *)
(***************************************************************************)
SpecPoolFair ==
    /\ InitPool
    /\ [][NextPool]_vars
    /\ SF_vars(EnqueueLock)
    /\ WF_vars(EnqueuePush)
    /\ WF_vars(EnqueueNotify)
    /\ \A w \in Workers : WF_vars(WorkerBlock(w))
    /\ \A w \in Workers : WF_vars(WorkerDequeue(w))
    /\ \A w \in Workers : WF_vars(WorkerReturn(w))

(***************************************************************************)
(* SpecPoolDrain: SpecPool with threads that are scheduled and tasks that  *)
(* all return.  Fairness is given thread by thread: a thread that can take *)
(* its next step takes it (weak fairness of the steps of a worker that     *)
(* need no mutex, the return of its task among them, and of the steps of   *)
(* the destructor), and a thread waiting for queue_mutex gets it when it   *)
(* is released again and again (strong fairness of the acquisitions).      *)
(* Nobody is required to call enqueue or the destructor.                   *)
(***************************************************************************)
SpecPoolDrain ==
    /\ InitPool
    /\ [][NextPool]_vars
    /\ SF_vars(DtorLock)
    /\ WF_vars(DtorStop \/ DtorNotifyAll \/ DtorJoin)
    /\ \A w \in Workers :
          /\ WF_vars(TaskReturn(w) \/ WorkerBlock(w) \/ WorkerDequeue(w) \/ WorkerReturn(w))
          /\ SF_vars(WorkerLock(w) \/ WorkerRelock(w))

(***************************************************************************)
(* SpecServer: accept_incoming_connections feeding the pool.  Every        *)
(* accepted connection is a task handle_client(client_sock); the pool is   *)
(* never destroyed.  A peer ends its session: it sends quit or closes.     *)
(***************************************************************************)
ServerInputs == {Line(Kw.quit, <<>>)}

\* accept() returns a connection and pool.enqueue is called with it
Accept == Submit

InitServer ==
    /\ PoolInit
    /\ NetIdle /\ SessIdle /\ FsIdle /\ ClientIdle
    /\ CancelIdle /\ ExecIdle

NextServer ==
    \/ \E w \in Workers : WorkerLock(w)
    \/ \E w \in Workers : WorkerBlock(w)
    \/ \E w \in Workers : WorkerSpuriousWake(w)
    \/ \E w \in Workers : WorkerRelock(w)
    \/ \E w \in Workers : WorkerDequeue(w)
    \/ Accept
    \/ EnqueueLock
    \/ EnqueuePush
    \/ EnqueueNotify
    \/ \E c \in Conns : SessGreeting(c)
    \/ \E c \in Conns : SessQuit(c, RecvAll(c, BUFFER_SIZE - 1))
    \/ \E c \in Conns : SessDisconnect(c)
    \/ \E c \in Conns : \E data \in ServerInputs : EnvSend(c, data)
    \/ \E c \in Conns : EnvClose(c)

SpecServer == InitServer /\ [][NextServer]_vars

(***************************************************************************)
(* SpecServerFair: SpecServer with the progress the threads are given: a   *)
(* thread that can take a step takes it, a thread waiting for queue_mutex  *)
(* gets it when it is released again and again.  No wait is required to    *)
(* return without a notify, nobody is required to connect, and every peer  *)
(* ends its session: it closes its socket if it has not sent quit.         *)
(***************************************************************************)
SpecServerFair ==
    /\ InitServer
    /\ [][NextServer]_vars
    /\ SF_vars(EnqueueLock)
    /\ WF_vars(EnqueuePush)
    /\ WF_vars(EnqueueNotify)
    /\ \A w \in Workers :
          /\ SF_vars(WorkerLock(w))
          /\ SF_vars(WorkerRelock(w))
          /\ WF_vars(WorkerBlock(w))
          /\ WF_vars(WorkerDequeue(w))
    /\ \A c \in Conns :
          /\ WF_vars(SessGreeting(c))
          /\ WF_vars(SessQuit(c, RecvAll(c, BUFFER_SIZE - 1)))
          /\ WF_vars(SessDisconnect(c))
          /\ WF_vars(EnvClose(c))

(***************************************************************************)
(* SpecShared: two connections served at the same time by two workers of   *)
(* the one server process.  Each peer sends pwd and cd commands.           *)
(***************************************************************************)
SharedConns == {1, 2}

SharedInputs == {Line(Kw.pwd, <<>>), Line(Kw.cd, NameD), Line(Kw.cd, DOTDOT)}

InitShared ==
    /\ stop = FALSE
    /\ tasks = <<>>
    /\ queue_mutex = 0
    /\ wpc = [w \in Workers |-> IF w \in SharedConns THEN "run" ELSE "blocked"]
    /\ wtask = [w \in Workers |-> IF w \in SharedConns THEN w ELSE 0]
    /\ mpc = "idle"
    /\ ntask = 2
    /\ executed = [t \in TaskIds |-> IF t \in SharedConns THEN 1 ELSE 0]
    /\ queuedAtStop = {}
    /\ NetIdle /\ SessIdle /\ ClientIdle
    /\ cwd = <<>>
    /\ dirs = {<<>>, <<NameD>>}
    /\ files = EmptyMap
    /\ denied = {}
    /\ CancelIdle /\ ExecIdle

NextShared ==
    \/ \E c \in SharedConns : SessGreeting(c)
    \/ \E c \in SharedConns : SessCommand(c, RecvAll(c, BUFFER_SIZE - 1))
    \/ \E c \in SharedConns : \E data \in SharedInputs : EnvSend(c, data)

SpecShared == InitShared /\ [][NextShared]_vars

(***************************************************************************)
(* One session and the spelling of its command lines: separators other     *)
(* than one space, other letter case, shorter and longer names.            *)
(***************************************************************************)
ParseInputs ==
    {Line(Kw.pwd, <<>>), Line(Kw.cd, NameD), Line(Kw.mkdir, NameE),
     Line(Kw.quit, <<>>), Line(Kw.quit, NameX),
     Kw.pwd \o <<"\t">> \o NameX \o S_LF,
     Kw.cd \o <<"\t">> \o NameD \o S_LF,
     Kw.cd \o <<" ", "\t", " ">> \o NameD \o <<" ", "\r">> \o S_LF,
     <<" ">> \o Kw.pwd \o <<"\r">> \o S_LF,
     <<"P", "W", "D">> \o S_LF,
     SubSeq(Kw.pwd, 1, 2) \o S_LF,
     Kw.pwd \o NameX \o S_LF}

InitParse ==
    /\ InitSession
    /\ files = (<<NameF>> :> <<"a">>)
    /\ denied = {}

NextParse ==
    \/ SessGreeting(1)
    \/ SessCommand(1, RecvAll(1, BUFFER_SIZE - 1))
    \/ SessQuit(1, RecvAll(1, BUFFER_SIZE - 1))
    \/ SessDisconnect(1)
    \/ \E data \in ParseInputs : EnvSend(1, data)
    \/ EnvClose(1)

SpecParse == InitParse /\ [][NextParse]_vars

(***************************************************************************)
(* One session and a peer that writes pwd lines without waiting for the    *)
(* replies: the bytes in flight are a stream, and a recv of handle_client  *)
(* returns any number of them, whatever the lines are.                     *)
(***************************************************************************)
\* the peer of connection c writes one more line
StreamSend(c, data) ==
    /\ ~cclosed[c]
    /\ ncmd[c] < MaxCmds
    /\ ncmd' = [ncmd EXCEPT ![c] = @ + 1]
    /\ c2s' = [c2s EXCEPT ![c] = @ \o data]
    /\ UNCHANGED <<poolVars, s2c, cclosed, sessVars, fsVars, cpc, cfile,
                   cname, typed, orig>>
    /\ UNCHANGED <<cancelVars, send_failed, execVars>>

NextStream ==
    \/ SessGreeting(1)
    \/ \E n \in 1..(BUFFER_SIZE - 1) : SessCommand(1, n)
    \/ StreamSend(1, Line(Kw.pwd, <<>>))

SpecStream == InitParse /\ [][NextStream]_vars

(***************************************************************************)
(* SpecCancel: one session and the listener of the terminate port, whose   *)
(* cancellers send well-formed and other requests at any time.             *)
(***************************************************************************)
\* a request: ten bytes, then the text std::stoi reads
Terminate(text) ==
    <<"t", "e", "r", "m", "i", "n", "a", "t", "e", " ">> \o text

TermPayloads ==
    {Terminate(<<DigitChars[i + 1]>>) : i \in 1..MaxId}
       \cup {<<>>,
             Terminate(<<"9", "9", "9", "9", "9", "9", "9", "9", "9", "9",
                         "9">>),
             Terminate(<<>>),
             Terminate(<<"x">>),
             <<"b", "y", "e">>}

NextCancel ==
    \/ SessGreeting(1)
    \/ SessCommand(1, RecvAll(1, BUFFER_SIZE - 1))
    \/ SessPutRecv(1, RecvAll(1, BUFFER_SIZE))
    \/ SessDisconnect(1)
    \/ SessPutEof(1)
    \/ \E data \in {Line(Kw.pwd, <<>>), Line(Kw.mkdir, NameE),
                     Line(Kw.put, NameH), <<"a">> \o MARKER} :
          EnvSend(1, data)
    \/ EnvClose(1)
    \/ \E data \in TermPayloads : TermConnect(data)
    \/ TermRequest
    \/ TermAbort

SpecCancel == InitParse /\ [][NextCancel]_vars

(***************************************************************************)
(* SpecRegistry: the same session and listener on every content of         *)
(* active_commands: no code of the server inserts into the map, so the     *)
(* listener is run on the maps an insertion could have left.               *)
(***************************************************************************)
InitRegistry ==
    /\ stop = FALSE
    /\ tasks = <<>>
    /\ queue_mutex = 0
    /\ wpc = [w \in Workers |-> IF w = 1 THEN "run" ELSE "blocked"]
    /\ wtask = [w \in Workers |-> IF w = 1 THEN 1 ELSE 0]
    /\ mpc = "idle"
    /\ ntask = 1
    /\ executed = [t \in TaskIds |-> IF t = 1 THEN 1 ELSE 0]
    /\ queuedAtStop = {}
    /\ NetIdle /\ SessIdle /\ FsIdle /\ ClientIdle
    /\ active_commands \in UNION {[ids -> BOOLEAN] : ids \in SUBSET (1..MaxId)}
    /\ term_sock = "none"
    /\ term_in = <<>>
    /\ term_out = <<>>
    /\ term_last = [id |-> 0, found |-> FALSE]
    /\ term_nul = 0
    /\ send_failed = [c \in Conns |-> 0]
    /\ ExecIdle

SpecRegistry == InitRegistry /\ [][NextCancel]_vars

(***************************************************************************)
(* SpecBuffer: the listener alone, with requests of the lengths recv can   *)
(* return: the shortest ones, and the longest up to a full buffer; a       *)
(* request is the first bytes of terminate 1 followed by blanks.           *)
(***************************************************************************)
NextBuffer ==
    \/ \E n \in (1..16) \cup ((BUFFER_SIZE - 3)..BUFFER_SIZE) :
          TermConnect(SubSeq(Terminate(<<"1">>)
                                \o Rep(<<" ">>, BUFFER_SIZE - 11), 1, n))
    \/ TermRequest
    \/ TermAbort

SpecBuffer == InitParse /\ [][NextBuffer]_vars

(***************************************************************************)
(* SpecUpload: one session whose peer uploads to a new name and to the     *)
(* name of a file that exists, sends payload without and with the marker,  *)
(* with bytes behind the marker, and may close in the middle; the reads of *)
(* the receive loop end anywhere in the stream.                            *)
(***************************************************************************)
NextUpload ==
    \/ SessGreeting(1)
    \/ SessCommand(1, RecvAll(1, BUFFER_SIZE - 1))
    \/ XferPutRecv
    \/ SessPutEof(1)
    \/ SessDisconnect(1)
    \/ \E data \in {Line(Kw.put, NameF), Line(Kw.put, NameH), <<"b">>,
                     <<"b">> \o MARKER \o Line(Kw.pwd, <<>>),
                     Line(Kw.pwd, <<>>)} : EnvSend(1, data)
    \/ EnvClose(1)

SpecUpload == InitParse /\ [][NextUpload]_vars

(***************************************************************************)
(* SpecTwoPuts: two sessions, run by two workers, upload to one name.      *)
(***************************************************************************)
NextTwoPuts ==
    \/ \E c \in SharedConns : SessGreeting(c)
    \/ \E c \in SharedConns : SessCommand(c, RecvAll(c, BUFFER_SIZE - 1))
    \/ \E c \in SharedConns : SessPutRecv(c, RecvAll(c, BUFFER_SIZE))
    \/ \E c \in SharedConns :
          \E data \in {Line(Kw.put, NameH), <<"a", "a">> \o MARKER,
                       <<"b">> \o MARKER} : EnvSend(c, data)

SpecTwoPuts == InitShared /\ [][NextTwoPuts]_vars

(***************************************************************************)
(* Sends that fail: the peer of a session has closed its socket while a    *)
(* command of its own was still on the way.                                *)
(***************************************************************************)
\* the peer of connection c sends data and closes without reading more
EnvSendClose(c, data) ==
    /\ spc[c] = "await"
    /\ c2s[c] = <<>>
    /\ ~cclosed[c]
    /\ ncmd[c] < MaxCmds
    /\ ncmd' = [ncmd EXCEPT ![c] = @ + 1]
    /\ c2s' = [c2s EXCEPT ![c] = data]
    /\ cclosed' = [cclosed EXCEPT ![c] = TRUE]
    /\ UNCHANGED <<poolVars, s2c, sessVars, fsVars, cpc, cfile, cname,
                   typed, orig, cancelVars, send_failed,
                   execVars>>

\* handle_client: recv returns n bytes, the command is not quit, and of
\* the sends of the turn the first k go through: from send k + 1 on the
\* socket is broken and send fails.  A failing send returns -1 (the result
\* is logged by send_response_impl, dropped by handle_get) or, no flag or
\* handler being set against it, raises SIGPIPE, which ends the process:
\* sig is the send that raises it, if one does.  What the handler does to
\* the filesystem it does before its first send
SessCommandSendFail(c, n) ==
    /\ \E w \in Workers : Running(c, w)
    /\ spc[c] = "await"
    /\ cclosed[c]
    /\ n \in 1..Min(Len(c2s[c]), BUFFER_SIZE - 1)
    /\ LET command == trim(Received(c, n)) IN
       /\ command # Kw.quit
       /\ \E order \in (IF CmdOf(command) = Kw.ls THEN Orders(Entries(cwd))
                        ELSE {<<>>}) :
             LET R == execute_command(command, order)
                 out == TurnReply(command, R)
             IN  \E k \in 0..(Len(out) - 1) :
                 \E sig \in (k + 1)..(Len(out) + 1) :
                    LET calls == Min(sig, Len(out)) IN
                    /\ Send(c, SubSeq(out, 1, k))
                    /\ send_failed' = [send_failed EXCEPT ![c] = @ + calls - k]
                    /\ cwd' = R.cwd
                    /\ dirs' = R.dirs
                    /\ files' = R.files
                    /\ put_file' = [put_file EXCEPT ![c] = R.pf]
                    /\ put_off' = [put_off EXCEPT ![c] = 0]
                    /\ leftover_data' = [leftover_data EXCEPT ![c] = <<>>]
                    /\ last' = [last EXCEPT ![c] =
                          Turn("command", Received(c, n),
                               SubSeq(out, 1, calls),
                               OwnDir(c, command, R))]
                    /\ IF sig <= Len(out)
                       THEN Killed
                       ELSE /\ spc' = [spc EXCEPT ![c] =
                                  IF R.put THEN "put" ELSE "await"]
                            /\ UNCHANGED <<wpc, mpc>>
    /\ Consume(c, n)
    /\ UNCHANGED <<stop, tasks, queue_mutex, wtask, ntask, executed,
                   queuedAtStop, cclosed, denied, clientVars, cancelVars,
                   execVars>>

NextBroken ==
    \/ SessGreeting(1)
    \/ SessCommand(1, RecvAll(1, BUFFER_SIZE - 1))
    \/ SessCommandSendFail(1, RecvAll(1, BUFFER_SIZE - 1))
    \/ SessQuit(1, RecvAll(1, BUFFER_SIZE - 1))
    \/ SessDisconnect(1)
    \/ \E data \in {Line(Kw.pwd, <<>>), Line(Kw.get, NameF), S_LF,
                     Line(Kw.mkdir, NameE), Line(Kw.quit, <<>>)} :
          EnvSend(1, data) \/ EnvSendClose(1, data)
    \/ EnvClose(1)

SpecBroken == InitParse /\ [][NextBroken]_vars

(***************************************************************************)
(* static CommandMap command_map = create_command_map() in                 *)
(* execute_command: a function-local static, initialised by the first      *)
(* thread that reaches the declaration (C++11, no -fno-threadsafe-statics  *)
(* in the Makefile); a thread that reaches it meanwhile waits.             *)
(***************************************************************************)
\* a static declaration that every thread initialises that finds it
\* not initialised yet
ExecBegin_Unguarded(c) ==
    /\ \E w \in Workers : Running(c, w)
    /\ spc[c] = "await"
    /\ c2s[c] # <<>>
    /\ trim(Received(c, RecvAll(c, BUFFER_SIZE - 1))) # Kw.quit
    /\ epc[c] = "idle"
    /\ IF static_guard # "done"
       THEN /\ static_guard' = "pending"
            /\ epc' = [epc EXCEPT ![c] = "init"]
       ELSE /\ static_guard' = static_guard
            /\ epc' = [epc EXCEPT ![c] = "ready"]
    /\ UNCHANGED <<poolVars, netVars, sessVars, fsVars, clientVars,
                   cancelVars, send_failed, static_map, static_calls,
                   mkdir_at>>

\* execute_command is entered by session c with a command that is not
\* quit: the guard of the static is tested
ExecBegin(c) ==
    /\ \E w \in Workers : Running(c, w)
    /\ spc[c] = "await"
    /\ c2s[c] # <<>>
    /\ trim(Received(c, RecvAll(c, BUFFER_SIZE - 1))) # Kw.quit
    /\ epc[c] = "idle"
    /\ static_guard # "pending"
    /\ IF static_guard = "none"
       THEN /\ static_guard' = "pending"
            /\ epc' = [epc EXCEPT ![c] = "init"]
       ELSE /\ static_guard' = static_guard
            /\ epc' = [epc EXCEPT ![c] = "ready"]
    /\ UNCHANGED <<poolVars, netVars, sessVars, fsVars, clientVars,
                   cancelVars, send_failed, static_map, static_calls,
                   mkdir_at>>

\* create_command_map() is called and the guard is released
ExecInit(c) ==
    /\ epc[c] = "init"
    /\ static_map' = command_map
    /\ static_calls' = static_calls + 1
    /\ static_guard' = "done"
    /\ epc' = [epc EXCEPT ![c] = "ready"]
    /\ UNCHANGED <<poolVars, netVars, sessVars, fsVars, clientVars,
                   cancelVars, send_failed, mkdir_at>>

\* command_map.find(cmd) and the call of the handler, by a session that
\* has passed the declaration: in its later calls the guard is found set
ExecFind(c) ==
    /\ epc[c] = "ready"
    /\ SessCommand(c, RecvAll(c, BUFFER_SIZE - 1))

NextStatic ==
    \/ \E c \in SharedConns : SessGreeting(c)
    \/ \E c \in SharedConns : ExecBegin(c)
    \/ \E c \in SharedConns : ExecInit(c)
    \/ \E c \in SharedConns : ExecFind(c)
    \/ \E c \in SharedConns : \E data \in SharedInputs : EnvSend(c, data)

SpecStatic == InitShared /\ [][NextStatic]_vars

(***************************************************************************)
(* handle_mkdir in its two system calls, stat and mkdir, so that the       *)
(* handlers of two sessions can be between them at the same time.          *)
(***************************************************************************)
\* handle_mkdir of session c: stat(directory_name).  When the name exists
\* the handler replies and returns; when it does not, the handler goes on
\* to create_directory
MkdirStat(c) ==
    /\ \E w \in Workers : Running(c, w)
    /\ spc[c] = "await"
    /\ c2s[c] # <<>>
    /\ mkdir_at[c] = {}
    /\ LET command == trim(Received(c, RecvAll(c, BUFFER_SIZE - 1))) IN
       /\ CmdOf(command) = Kw.mkdir
       /\ ArgOf(command) # <<>>
       /\ IF file_exists(Resolve(ArgOf(command)))
          THEN SessCommand(c, RecvAll(c, BUFFER_SIZE - 1))
          ELSE /\ mkdir_at' = [mkdir_at EXCEPT
                                  ![c] = {Resolve(ArgOf(command))}]
               /\ UNCHANGED <<poolVars, netVars, sessVars, fsVars,
                              clientVars, cancelVars, send_failed,
                              static_guard, static_map, static_calls, epc>>

\* a create_directory that succeeds on a directory that is there already
MkdirCreate_Idempotent(c) ==
    /\ mkdir_at[c] # {}
    /\ LET p == CHOOSE q \in mkdir_at[c] : TRUE
           made == IsDir(p) \/ (~file_exists(p) /\ p \notin denied)
           out == IF made
                  THEN <<send_response2(S_SUCCESS, Msg.DirCreated)>>
                  ELSE <<send_response2(S_ERROR, Msg.UnableToCreateDir)>>
       IN  /\ dirs' = IF made THEN dirs \cup {p} ELSE dirs
           /\ Send(c, out)
           /\ last' = [last EXCEPT ![c] =
                 Turn("command", Received(c, RecvAll(c, BUFFER_SIZE - 1)),
                      out,
                      last[c].dir)]
    /\ Consume(c, RecvAll(c, BUFFER_SIZE - 1))
    /\ mkdir_at' = [mkdir_at EXCEPT ![c] = {}]
    /\ UNCHANGED <<poolVars, cclosed, spc, leftover_data, put_file, put_off,
                   cwd, files, denied, clientVars, cancelVars, send_failed,
                   static_guard, static_map, static_calls, epc>>

\* handle_mkdir of session c: create_directory, that is mkdir(path, 0755),
\* which fails when the path exists by now, and the reply
MkdirCreate(c) ==
    /\ mkdir_at[c] # {}
    /\ LET p == CHOOSE q \in mkdir_at[c] : TRUE
           made == ~file_exists(p) /\ p \notin denied
           out == IF made
                  THEN <<send_response2(S_SUCCESS, Msg.DirCreated)>>
                  ELSE <<send_response2(S_ERROR, Msg.UnableToCreateDir)>>
       IN  /\ dirs' = IF made THEN dirs \cup {p} ELSE dirs
           /\ Send(c, out)
           /\ last' = [last EXCEPT ![c] =
                 Turn("command", Received(c, RecvAll(c, BUFFER_SIZE - 1)),
                      out,
                      last[c].dir)]
    /\ Consume(c, RecvAll(c, BUFFER_SIZE - 1))
    /\ mkdir_at' = [mkdir_at EXCEPT ![c] = {}]
    /\ UNCHANGED <<poolVars, cclosed, spc, leftover_data, put_file, put_off,
                   cwd, files, denied, clientVars, cancelVars, send_failed,
                   static_guard, static_map, static_calls, epc>>

NextMkdir ==
    \/ \E c \in SharedConns : SessGreeting(c)
    \/ \E c \in SharedConns : MkdirStat(c)
    \/ \E c \in SharedConns : MkdirCreate(c)
    \/ \E c \in SharedConns :
          \E data \in {Line(Kw.mkdir, NameE), Line(Kw.mkdir, NameD)} :
             EnvSend(c, data)

SpecMkdir == InitShared /\ [][NextMkdir]_vars

(***************************************************************************)
(* Properties of the ThreadPool (SpecPool, SpecPoolFair).                  *)
(***************************************************************************)
\* the tasks handed to enqueue so far
Submitted == 1..ntask

\* C4: when the destructor has returned, every task submitted before it
\* started has been executed exactly once, and every worker has left
\* worker(), which it does only on stop with an empty queue; at no time has
\* a task been executed twice
C4_ExecutedOnce ==
    /\ \A t \in TaskIds : executed[t] <= 1
    /\ \A t \in TaskIds \ Submitted : executed[t] = 0
    /\ \A w \in Workers : wpc[w] = "exited" => (stop /\ tasks = <<>>)
    /\ mpc = "dtor_done" =>
          /\ \A t \in Submitted : executed[t] = 1
          /\ \A w \in Workers : wpc[w] = "exited"
          /\ stop /\ tasks = <<>>

\* the destructor has returned from a pool that was given at least as many
\* tasks as it has workers, some of them still queued at stop
C4_Witness ==
    /\ mpc = "dtor_done"
    /\ ntask >= NumWorkers
    /\ queuedAtStop # {}
    /\ \A t \in Submitted : executed[t] = 1

\* C5 (as stated): the tasks still queued when the destructor sets stop are
\* never executed
C5_QueuedDropped ==
    stop => \A t \in queuedAtStop : executed[t] = 0

\* C5 (amended): the tasks still queued when the destructor sets stop are
\* not dropped: the queue keeps every one of them until a worker takes it,
\* and when the destructor has returned each has been executed exactly once
C5_QueuedDrained ==
    /\ stop => \A t \in queuedAtStop :
                  \/ executed[t] = 0 /\ t \in Range(tasks)
                  \/ executed[t] = 1 /\ t \notin Range(tasks)
    /\ mpc = "dtor_done" => \A t \in queuedAtStop : executed[t] = 1

\* the destructor has returned after setting stop on a queue of two tasks
\* or more, all of them executed since
C5_Witness ==
    /\ mpc = "dtor_done"
    /\ Cardinality(queuedAtStop) >= 2
    /\ \A t \in queuedAtStop : executed[t] = 1

\* C7: a call of enqueue that has begun returns, whatever the tasks the
\* workers are running do
C7_EnqueueReturns == (mpc = "enq_lock") ~> (mpc = "idle")

\* enqueue has returned, its task in the queue, while every worker is
\* inside a task
C7_Witness ==
    /\ mpc = "idle"
    /\ ntask = NumWorkers + 1
    /\ tasks = <<ntask>>
    /\ \A w \in Workers : wpc[w] = "run"

(***************************************************************************)
(* Properties of one session (SpecSession).                                *)
(***************************************************************************)
\* str holds pat
Contains(str, pat) == find(str, pat) # npos

\* a line of the form STATUS: message\n with STATUS SUCCESS or ERROR
IsStatusLine(line) ==
    \E status \in {S_SUCCESS, S_ERROR} :
       /\ Len(line) > Len(status \o S_SEP)
       /\ SubSeq(line, 1, Len(status \o S_SEP)) = status \o S_SEP
       /\ line[Len(line)] = "\n"
       /\ \A i \in 1..(Len(line) - 1) : line[i] # "\n"

\* the last turn of connection 1 was the command keyword
LastCommandIs(keyword) ==
    /\ last[1].turn = "command"
    /\ CmdOf(trim(last[1].data)) = keyword

\* the last turn of connection 1 was get of a file that exists and opens
LastGetOfFile ==
    /\ LastCommandIs(Kw.get)
    /\ ArgOf(trim(last[1].data)) # <<>>
    /\ IsFile(Resolve(ArgOf(trim(last[1].data))))
    /\ Resolve(ArgOf(trim(last[1].data))) \notin denied

\* C3: for get of an existing, readable file the server sends the line
\* SUCCESS: FILE_TRANSFER_START, then the bytes of the file in order, each
\* once, in buffers of 1 to 1024 bytes, then the line FILE_TRANSFER_END,
\* and nothing else
C3_DownloadFraming ==
    LastGetOfFile =>
       LET out == last[1].out
           content == files[Resolve(ArgOf(trim(last[1].data)))]
       IN  /\ Len(out) >= 2
           /\ out[1] = S_SUCCESS \o S_SEP \o S_FILE_TRANSFER_START \o S_LF
           /\ out[Len(out)] = S_FILE_TRANSFER_END \o S_LF
           /\ \A i \in 2..(Len(out) - 1) :
                 Len(out[i]) >= 1 /\ Len(out[i]) <= BUFFER_SIZE
           /\ Flatten(SubSeq(out, 2, Len(out) - 1)) = content

\* a get of a file of one full buffer and one more byte has been served:
\* a full chunk and a short one between the two lines
C3_Witness ==
    /\ LastGetOfFile
    /\ Len(last[1].out) = 4
    /\ Len(last[1].out[2]) = BUFFER_SIZE
    /\ Len(last[1].out[3]) = 1

\* C9: for cd, mkdir, delete and unknown commands, whatever the outcome,
\* the server sends exactly one line, of the form SUCCESS: message or
\* ERROR: message
C9_ResponseShape ==
    (/\ last[1].turn = "command"
     /\ trim(last[1].data) # <<>>
     /\ CmdOf(trim(last[1].data)) \notin {Kw.pwd, Kw.ls, Kw.get, Kw.put})
    => IsStatusLine(Flatten(last[1].out))

\* C10: for data that trims to the empty string the server sends the one
\* byte \n and nothing else, and the session stays in AWAIT_COMMAND
C10_EmptyLine ==
    (last[1].turn = "command" /\ trim(last[1].data) = <<>>)
    => (Flatten(last[1].out) = S_LF /\ spc[1] = "await")

(***************************************************************************)
(* Properties of a transfer between the client and the server (SpecXfer).  *)
(***************************************************************************)
\* C2: once the client has seen SUCCESS: READY_TO_RECEIVE and the server
\* has taken every byte of the payload and of the terminator that follows
\* it, however the stream was cut into reads, the terminator has been
\* recognised: the stored file is the payload, without the marker, and the
\* server has replied SUCCESS: File transfer completed.
C2_UploadStored ==
    (/\ cpc = "put_ack"
     /\ typed = <<C_put \o NameF>>
     /\ c2s[ClientConn] = <<>>
     /\ ~Contains(orig, MARKER))
    => /\ spc[ClientConn] = "await"
       /\ IsFile(<<NameF>>)
       /\ files[<<NameF>>] = orig
       /\ last[ClientConn].out =
             <<send_response2(S_SUCCESS, Msg.FileTransferCompleted)>>

\* C1: when put of a file whose content does not hold the terminator and
\* then get of the same name have both completed, however the streams were
\* cut into reads, the local file holds the original content
C1_RoundTrip ==
    (/\ cpc = "prompt"
     /\ typed = <<C_put \o NameF, C_get \o NameF>>
     /\ ~Contains(orig, MARKER))
    => cfile[NameF] = orig

(***************************************************************************)
(* Properties of the server as a whole (SpecServer, SpecShared).           *)
(***************************************************************************)
\* the sessions that have sent their greeting and not closed their socket
ActiveSessions == {c \in Conns : spc[c] \in {"await", "put"}}

\* C6: the sessions started and not closed are at most as many as the
\* workers; each of them is run by a worker, which runs nothing else; the
\* connections in the task queue have not been served
C6_PoolBoundsSessions ==
    /\ Cardinality(ActiveSessions) <= NumWorkers
    /\ \A c \in ActiveSessions : \E w \in Workers : Running(c, w)
    /\ \A c \in Range(tasks) : spc[c] = "new" /\ s2c[c] = <<>>

\* every worker runs a started session while an accepted connection is in
\* the queue
C6_Witness ==
    /\ Cardinality(ActiveSessions) = NumWorkers
    /\ tasks # <<>>
    /\ mpc = "idle"

\* C8: the directory the reply to pwd shows to a session is the one its
\* own successful cd commands have led to
C8_OwnDirectory ==
    \A c \in SharedConns :
       (last[c].turn = "command" /\ trim(last[c].data) = Kw.pwd)
       => last[c].out = <<send_response1(PathStr(last[c].dir))>>

(***************************************************************************)
(* Properties of the commands of one session (SpecSession).                *)
(***************************************************************************)
\* a step in which the session of connection c takes a command from its
\* socket: last'[c] describes the turn
CommandStep(c) ==
    /\ spc[c] = "await"
    /\ Len(c2s'[c]) < Len(c2s[c])
    /\ last'[c].turn = "command"

\* the filesystem of the server is left as it is
FsUnchanged == cwd' = cwd /\ dirs' = dirs /\ files' = files

\* an ERROR line
IsErrorLine(line) ==
    /\ IsStatusLine(line)
    /\ SubSeq(line, 1, Len(S_ERROR \o S_SEP)) = S_ERROR \o S_SEP

\* str ends with tail
EndsWith(str, tail) ==
    /\ Len(str) >= Len(tail)
    /\ SubSeq(str, Len(str) - Len(tail) + 1, Len(str)) = tail

\* the words every missing-argument message ends with, and the newline
NotSpecified ==
    <<"n", "o", "t", " ", "s", "p", "e", "c", "i", "f", "i", "e", "d", ".",
      "\n">>

\* C12: for cd, mkdir, delete, get and put with an empty argument the
\* server sends exactly one ERROR line ending in "not specified.", leaves
\* the filesystem as it is whatever the system calls would have done, and
\* stays in AWAIT_COMMAND (no transfer is entered)
C12_MissingArgument ==
    [][(/\ CommandStep(1)
        /\ CmdOf(trim(last'[1].data))
              \in {Kw.cd, Kw.mkdir, Kw.delete, Kw.get, Kw.put}
        /\ ArgOf(trim(last'[1].data)) = <<>>)
       => /\ Len(last'[1].out) = 1
          /\ IsErrorLine(last'[1].out[1])
          /\ EndsWith(last'[1].out[1], NotSpecified)
          /\ s2c'[1] = s2c[1] \o last'[1].out[1]
          /\ FsUnchanged
          /\ spc'[1] = "await"]_vars

\* put without a name has been answered while every system call would fail
C12_Witness ==
    /\ last[1].turn = "command"
    /\ trim(last[1].data) = Kw.put
    /\ last[1].out = <<send_response2(S_ERROR, Msg.FileNameNotSpecified)>>
    /\ denied = DeniedPaths
    /\ spc[1] = "await"

\* C13: the session is closed (and its socket with it) exactly when a
\* read for a command returns no byte or returns data that trims to quit;
\* on quit nothing is sent and no handler runs; every other command read,
\* quit with an argument and commands that fail included, leaves the
\* session open
C13_SessionTermination ==
    [][/\ (spc[1] # "closed" /\ spc'[1] = "closed")
            => /\ spc[1] = "await"
               /\ \/ c2s[1] = <<>> /\ cclosed[1]
                  \/ c2s[1] # <<>> /\ trim(c2s[1]) = Kw.quit
               /\ s2c'[1] = s2c[1]
               /\ FsUnchanged
       /\ (spc[1] = "await" /\ Len(c2s'[1]) < Len(c2s[1]))
            => (spc'[1] = "closed" <=> trim(last'[1].data) = Kw.quit)
       /\ (spc[1] = "await" /\ c2s[1] = <<>> /\ cclosed[1])
            => spc'[1] = "closed"]_vars

\* the session has been ended by quit after a command it refused
C13_Witness ==
    /\ spc[1] = "closed"
    /\ trim(last[1].data) = Kw.quit
    /\ s2c[1] = send_response1(S_welcome_msg)
                   \o send_response2(S_ERROR, Msg.InvalidCommand)

\* C14: a command that is not the empty line and meets an error (an
\* unknown name, a missing argument, a name that is not found, is of the
\* wrong type or exists already, a system call that fails) is answered by
\* exactly one ERROR line; the session stays open in AWAIT_COMMAND, where
\* it serves the next command
C14_ErrorRecovery ==
    [][LET command == trim(last'[1].data)
           cmd == CmdOf(command)
           arg == ArgOf(command)
           p == Resolve(arg)
           Taxonomy ==
               \/ cmd \notin command_map
               \/ cmd \in {Kw.cd, Kw.mkdir, Kw.delete, Kw.get, Kw.put}
                    /\ arg = <<>>
               \/ cmd = Kw.cd /\ (~IsDir(p) \/ p \in denied)
               \/ cmd = Kw.mkdir /\ (file_exists(p) \/ p \in denied)
               \/ cmd = Kw.delete /\ (~IsFile(p) \/ p \in denied)
               \/ cmd = Kw.get /\ (~file_exists(p) \/ p \in denied)
               \/ cmd = Kw.put /\ (IsDir(p) \/ p \in denied)
               \/ cmd = Kw.ls /\ cwd \in denied
       IN  (CommandStep(1) /\ command # <<>> /\ Taxonomy)
           => /\ Len(last'[1].out) = 1
              /\ IsErrorLine(last'[1].out[1])
              /\ s2c'[1] = s2c[1] \o last'[1].out[1]
              /\ spc'[1] = "await"]_vars

\* a command that failed has been followed by one that succeeded
C14_Witness ==
    /\ s2c[1] = send_response1(S_welcome_msg)
                   \o send_response2(S_ERROR, Msg.DirNotFound)
                   \o send_response2(S_SUCCESS, Msg.DirCreated)
    /\ spc[1] = "await"

\* C15: when mkdir d has succeeded and the next command of the session is
\* mkdir d again, the second reply is ERROR: Directory already exists. and
\* the directory, with the rest of the filesystem, is left as it was
C15_MkdirTwice ==
    [][(/\ CommandStep(1)
        /\ last[1].turn = "command"
        /\ CmdOf(trim(last[1].data)) = Kw.mkdir
        /\ last[1].out = <<send_response2(S_SUCCESS, Msg.DirCreated)>>
        /\ trim(last'[1].data) = trim(last[1].data))
       => /\ last'[1].out = <<send_response2(S_ERROR, Msg.DirAlreadyExists)>>
          /\ s2c'[1] = s2c[1] \o last'[1].out[1]
          /\ Resolve(ArgOf(trim(last[1].data))) \in dirs
          /\ FsUnchanged]_vars

\* mkdir e has been sent twice: created, then refused
C15_Witness ==
    /\ LastCommandIs(Kw.mkdir)
    /\ ArgOf(trim(last[1].data)) = NameE
    /\ s2c[1] = send_response1(S_welcome_msg)
                   \o send_response2(S_SUCCESS, Msg.DirCreated)
                   \o send_response2(S_ERROR, Msg.DirAlreadyExists)
    /\ <<NameE>> \in dirs

\* C16: delete of a name that does not exist is answered by
\* ERROR: 404 - File not found. and changes nothing; so is a delete f that
\* follows at once a delete f that succeeded
C16_DeleteMissing ==
    [][/\ (/\ CommandStep(1)
           /\ CmdOf(trim(last'[1].data)) = Kw.delete
           /\ ArgOf(trim(last'[1].data)) # <<>>
           /\ ~file_exists(Resolve(ArgOf(trim(last'[1].data)))))
          => /\ last'[1].out = <<send_response2(S_ERROR, Msg.FileNotFound)>>
             /\ s2c'[1] = s2c[1] \o last'[1].out[1]
             /\ FsUnchanged
       /\ (/\ CommandStep(1)
           /\ last[1].turn = "command"
           /\ CmdOf(trim(last[1].data)) = Kw.delete
           /\ last[1].out = <<send_response2(S_SUCCESS, Msg.FileDeleted)>>
           /\ trim(last'[1].data) = trim(last[1].data))
          => /\ last'[1].out = <<send_response2(S_ERROR, Msg.FileNotFound)>>
             /\ FsUnchanged]_vars

\* delete f has been sent twice: deleted, then not found
C16_Witness ==
    /\ LastCommandIs(Kw.delete)
    /\ ArgOf(trim(last[1].data)) = NameF
    /\ s2c[1] = send_response1(S_welcome_msg)
                   \o send_response2(S_SUCCESS, Msg.FileDeleted)
                   \o send_response2(S_ERROR, Msg.FileNotFound)
    /\ files = EmptyMap

\* C17: get without a name is answered by ERROR: File name not specified.,
\* get of a name that does not exist by ERROR: 404 - File not found., get
\* of a file that cannot be opened by one ERROR line; in these cases the
\* ERROR line is all the server sends: no FILE_TRANSFER_START, no
\* FILE_TRANSFER_END, no byte of a file
C17_DownloadErrors ==
    LastCommandIs(Kw.get) =>
        LET arg == ArgOf(trim(last[1].data))
            p == Resolve(arg)
            out == last[1].out
        IN  /\ arg = <<>>
                => out = <<send_response2(S_ERROR, Msg.FileNameNotSpecified)>>
            /\ (arg # <<>> /\ ~file_exists(p))
                => out = <<send_response2(S_ERROR, Msg.FileNotFound)>>
            /\ (arg # <<>> /\ file_exists(p) /\ p \in denied)
                => Len(out) = 1 /\ IsErrorLine(out[1])
            /\ (arg = <<>> \/ ~file_exists(p) \/ p \in denied)
                => /\ ~Contains(Flatten(out), S_FILE_TRANSFER_START)
                   /\ ~Contains(Flatten(out), S_FILE_TRANSFER_END)
                   /\ spc[1] = "await"

\* get of a file that exists and cannot be opened has been answered
C17_Witness ==
    /\ LastCommandIs(Kw.get)
    /\ ArgOf(trim(last[1].data)) = NameF
    /\ <<NameF>> \in denied
    /\ last[1].out = <<send_response2(S_ERROR, Msg.UnableToOpenFile)>>

\* C18: in the receive loop of an upload, a read that returns data in
\* which the marker is found ends the loop with
\* SUCCESS: File transfer completed.; a read that returns no byte ends it
\* with ERROR: File transfer failed.; a read that returns data without the
\* marker sends nothing and stays in the loop; so exactly one of the two
\* replies is sent, at the first of the two events
C18_UploadOutcome ==
    [][spc[1] = "put" =>
         /\ Len(c2s'[1]) < Len(c2s[1]) =>
              IF Contains(last'[1].data, MARKER)
              THEN /\ s2c'[1] = s2c[1] \o send_response2(S_SUCCESS,
                                              Msg.FileTransferCompleted)
                   /\ spc'[1] = "await"
              ELSE /\ s2c'[1] = s2c[1]
                   /\ spc'[1] = "put"
         /\ (c2s[1] = <<>> /\ cclosed[1]) =>
              /\ s2c'[1] = s2c[1] \o send_response2(S_ERROR,
                                         Msg.FileTransferFailed)
              /\ spc'[1] = "await"]_vars

\* an upload has failed: data without the marker was stored, then the
\* peer closed
C18_Witness ==
    /\ s2c[1] = send_response1(S_welcome_msg)
                   \o send_response2(S_SUCCESS, S_READY_TO_RECEIVE)
                   \o send_response2(S_ERROR, Msg.FileTransferFailed)
    /\ <<NameH>> \in DOMAIN files
    /\ files[<<NameH>>] # <<>>
    /\ spc[1] = "await"

(***************************************************************************)
(* Properties of the reading of commands (SpecParse, SpecStream).          *)
(***************************************************************************)
\* C11: with the token of a command being the text before its first
\* whitespace: a handler runs exactly when the token is, letter for
\* letter, one of pwd, ls, cd, mkdir, delete, get, put; for every other
\* token but quit the reply is ERROR: Invalid command. and nothing else
C11_Dispatch ==
    (last[1].turn = "command" /\ trim(last[1].data) # <<>>) =>
        LET command == trim(last[1].data)
            ws == {i \in 1..Len(command) : command[i] \in Whitespace}
            token == IF ws = {} THEN command
                     ELSE SubSeq(command, 1, SetMin(ws) - 1)
            invalid == <<send_response2(S_ERROR, Msg.InvalidCommand)>>
        IN  token # Kw.quit =>
                IF token \in command_map
                THEN last[1].out # invalid
                ELSE last[1].out = invalid

\* C19: every command line the peer has written is dispatched exactly
\* once, however the bytes are cut into reads: when all the pwd lines
\* written so far have been read, the server has sent one reply of pwd for
\* each of them and nothing else
C19_OneLinePerRead ==
    (spc[1] = "await" /\ c2s[1] = <<>>) =>
        s2c[1] = send_response1(S_welcome_msg)
                    \o Rep(send_response1(PathStr(cwd)), ncmd[1])

\* C20: the name of a command is the text before its first whitespace,
\* its argument the rest after that run of spaces or tabs, trimmed of
\* space, tab, CR and LF, and empty when the command holds no whitespace
C20_CommandParsing ==
    last[1].turn = "command" =>
        LET command == trim(last[1].data)
            ws == {i \in 1..Len(command) : command[i] \in Whitespace}
            name == IF ws = {} THEN command
                    ELSE SubSeq(command, 1, SetMin(ws) - 1)
            argument == IF ws = {} THEN <<>>
                        ELSE trim(SubSeq(command, SetMin(ws) + 1,
                                         Len(command)))
        IN  /\ CmdOf(command) = name
            /\ ArgOf(command) = argument

(***************************************************************************)
(* Properties of the cancellation side-channel (SpecRegistry, SpecCancel). *)
(***************************************************************************)
\* C21: when the listener handles a request that names the identifier id:
\* if id is in active_commands its entry is removed (id is absent
\* afterwards, the other entries are as they were), if id is absent the
\* map is left as it is; in both cases no byte is sent to the canceller
\* and the connection is closed
C21_CancelRequest ==
    [][\A id \in 1..MaxId :
          (/\ term_sock = "open"
           /\ term_in = Terminate(<<DigitChars[id + 1]>>)
           /\ term_sock' # "open")
          => /\ id \notin DOMAIN active_commands'
             /\ \A i \in (1..MaxId) \ {id} :
                   /\ i \in DOMAIN active_commands'
                         <=> i \in DOMAIN active_commands
                   /\ i \in DOMAIN active_commands
                         => active_commands'[i] = active_commands[i]
             /\ id \notin DOMAIN active_commands
                   => active_commands' = active_commands
             /\ term_out' = <<>>
             /\ term_sock' = "closed"]_vars

\* a request for an identifier that was in the map has been handled: the
\* entry is gone and the connection is closed without a reply
C21_Witness ==
    /\ term_sock = "closed"
    /\ term_last.found
    /\ term_last.id \notin DOMAIN active_commands
    /\ term_out = <<>>

\* C22: in every reachable state active_commands holds an identifier
\* exactly when a command is being executed and has not been cancelled:
\* an entry is inserted when the command begins and removed when it ends
\* or is cancelled.  A command that is being executed in a state of the
\* model is an upload in its receive loop
C22_EntryLifecycle ==
    (\E c \in Conns : spc[c] = "put") <=> DOMAIN active_commands # {}

\* C23: the requests on the terminate port are advisory only: a step of
\* the listener, whatever the request, leaves every session, the bytes on
\* the session sockets, the filesystem and the threads of the pool as they
\* are (a step of the listener is one that changes term_sock)
C23_AdvisoryOnly ==
    [][term_sock' # term_sock =>
          UNCHANGED <<spc, leftover_data, put_file, put_off, c2s, s2c,
                      cclosed, fsVars, wpc>>]_vars

(***************************************************************************)
(* Properties of sends that fail (SpecBroken).                             *)
(***************************************************************************)
\* C24: when a send on the socket of a session fails, the session is not
\* closed at that point and the process keeps running: the session goes
\* on to its next read
C24_SendFailureSwallowed ==
    [][send_failed'[1] > send_failed[1] =>
          /\ spc'[1] \in {"await", "put"}
          /\ mpc' # "killed"]_vars

\* C25: when the peer has gone during a download, the server stops
\* writing: after the first send of a get that fails, it calls send for no
\* further chunk of the file and not for FILE_TRANSFER_END
C25_DownloadStops ==
    [][(/\ spc[1] = "await"
        /\ Len(c2s'[1]) < Len(c2s[1])
        /\ last'[1].turn = "command"
        /\ CmdOf(trim(last'[1].data)) = Kw.get)
       => send_failed'[1] <= send_failed[1] + 1]_vars

(***************************************************************************)
(* An upload that cannot start (SpecSession).                              *)
(***************************************************************************)
\* C26: put without a name, and put of a name whose file cannot be
\* created, are answered by one ERROR line and nothing else: no
\* SUCCESS: READY_TO_RECEIVE, no receive loop; the session is in
\* AWAIT_COMMAND and what the client sends next is read as a command
C26_PutCannotStart ==
    /\ LastCommandIs(Kw.put) =>
         LET arg == ArgOf(trim(last[1].data))
             p == Resolve(arg)
             out == last[1].out
         IN  (arg = <<>> \/ IsDir(p) \/ p \in denied)
                => /\ Len(out) = 1
                   /\ IsErrorLine(out[1])
                   /\ arg = <<>> => out[1] = send_response2(S_ERROR,
                                                Msg.FileNameNotSpecified)
                   /\ ~Contains(Flatten(out), S_READY_TO_RECEIVE)
                   /\ spc[1] # "put"
    /\ spc[1] = "put" =>
         /\ put_file[1] \in DOMAIN files
         /\ ~IsDir(put_file[1])
         /\ put_file[1] \notin denied

\* put of the name of a directory was refused with one ERROR line and the
\* pwd sent after it has been answered as a command
C26_Witness ==
    /\ LastCommandIs(Kw.pwd)
    /\ IsDir(<<NameD>>)
    /\ s2c[1] = send_response1(S_welcome_msg)
                   \o send_response2(S_ERROR, Msg.UnableToCreateFile)
                   \o send_response1(PathStr(cwd))
    /\ spc[1] = "await"

(***************************************************************************)
(* The order of the queue (SpecPool).  The one thread that calls enqueue   *)
(* numbers its tasks in the order of its calls.                            *)
(***************************************************************************)
\* C27: tasks leave the queue in the order in which they entered it: when
\* enqueue(a) has returned before enqueue(b) begins, a worker takes a from
\* the queue before a worker takes b
C27_FifoDequeue ==
    /\ \A i \in 1..(Len(tasks) - 1) : tasks[i] < tasks[i + 1]
    /\ \A a, b \in TaskIds :
          (a < b /\ (executed[b] > 0 \/ b \in Range(tasks)))
             => (executed[a] > 0 \/ a \in Range(tasks))
    /\ \A a, b \in TaskIds :
          (a < b /\ executed[b] > 0)
             => (executed[a] > 0 /\ a \notin Range(tasks))

\* three tasks were handed to enqueue; the first and the second have been
\* taken by workers and the third is in the queue
C27_Witness ==
    /\ tasks = <<3>>
    /\ executed[1] = 1
    /\ executed[2] = 1
    /\ executed[3] = 0
    /\ \A w \in Workers : wpc[w] = "run" /\ wtask[w] \in {1, 2}

(***************************************************************************)
(* Progress of the server (SpecServerFair).                                *)
(***************************************************************************)
\* C28: when the threads are scheduled fairly and every session ends,
\* every accepted connection that is handed to enqueue is taken from the
\* queue by a worker and gets the greeting: no notify_one of enqueue is
\* lost on a worker that is about to wait
C28_EventuallyServed ==
    \A c \in Conns :
       (ntask >= c) ~> (executed[c] > 0 /\ spc[c] # "new" /\ s2c[c] # <<>>)

\* the connection accepted after as many others as there are workers has
\* been taken from the queue and greeted; the sessions before it have ended
C28_Witness ==
    /\ ntask = NumWorkers + 1
    /\ executed[ntask] = 1
    /\ s2c[ntask] = send_response1(S_welcome_msg)
    /\ \A c \in 1..NumWorkers : spc[c] = "closed"

(***************************************************************************)
(* Sessions of silent peers (SpecServer).                                  *)
(***************************************************************************)
\* C29: a session whose peer sends nothing and does not close stays in
\* AWAIT_COMMAND and keeps its worker, step after step; while every worker
\* runs such a session, no connection that waits in the queue is taken
\* from it or greeted
C29_IdleStarvation ==
    [][LET Idle(c) == spc[c] = "await" /\ c2s[c] = <<>> /\ ~cclosed[c]
       IN  /\ \A c \in Conns :
                (Idle(c) /\ c2s'[c] = <<>> /\ ~cclosed'[c])
                   => /\ spc'[c] = "await"
                      /\ \E w \in Workers : Running(c, w) /\ wpc'[w] = "run"
                                                /\ wtask'[w] = c
           /\ (\A w \in Workers : \E c \in Conns : Running(c, w) /\ Idle(c))
                => \A d \in Conns :
                      spc[d] = "new"
                         => /\ spc'[d] = "new"
                            /\ s2c'[d] = <<>>
                            /\ executed'[d] = 0]_vars

\* every worker runs the session of a silent peer, and a connection
\* accepted after them is in the queue, not greeted
C29_Witness ==
    /\ \A w \in Workers : \E c \in Conns :
          /\ Running(c, w)
          /\ spc[c] = "await" /\ c2s[c] = <<>> /\ ~cclosed[c]
    /\ tasks = <<NumWorkers + 1>>
    /\ spc[NumWorkers + 1] = "new"
    /\ s2c[NumWorkers + 1] = <<>>

(***************************************************************************)
(* The greeting (SpecStream: the peer writes without waiting for it).      *)
(***************************************************************************)
\* C30: the welcome line is the first thing a session does with its
\* socket and it is sent once: before it nothing is sent and nothing is
\* read, whatever has arrived; after it the stream to the peer begins with
\* the welcome line and holds it nowhere else
C30_GreetingFirst ==
    LET welcome == send_response1(S_welcome_msg)
        sent == ncmd[1] * Len(Line(Kw.pwd, <<>>))
    IN  /\ spc[1] = "new" => s2c[1] = <<>> /\ last[1].turn = "none"
        /\ last[1].turn \in {"none", "greeting"} => Len(c2s[1]) = sent
        /\ spc[1] # "new" =>
              /\ Len(s2c[1]) >= Len(welcome)
              /\ SubSeq(s2c[1], 1, Len(welcome)) = welcome
              /\ ~Contains(SubSeq(s2c[1], Len(welcome) + 1, Len(s2c[1])),
                           S_welcome_msg)

\* the session has sent the welcome line and nothing else, and the
\* commands the peer has written are in flight, unread
C30_Witness ==
    /\ last[1].turn = "greeting"
    /\ ncmd[1] = MaxCmds
    /\ Len(c2s[1]) = MaxCmds * Len(Line(Kw.pwd, <<>>))
    /\ s2c[1] = send_response1(S_welcome_msg)

(***************************************************************************)
(* The command registry (SpecStatic: two sessions dispatch at once).       *)
(***************************************************************************)
\* C31: the map from names to handlers is built at most once in the
\* process, also when two sessions dispatch their first commands at the
\* same time; once built it holds the seven names in every state, and a
\* session dispatches only on the map as built
C31_RegistryImmutable ==
    /\ static_calls <= 1
    /\ static_guard = "none" => static_calls = 0 /\ static_map = {}
    /\ static_guard = "done" =>
          /\ static_calls = 1
          /\ static_map = {Kw.pwd, Kw.ls, Kw.cd, Kw.mkdir, Kw.delete,
                           Kw.get, Kw.put}
          /\ Cardinality(static_map) = 7
    /\ \A c \in SharedConns :
          (epc[c] = "ready" \/ last[c].turn = "command")
             => static_guard = "done"

\* the map has been built once and both sessions have dispatched their
\* first command on it
C31_Witness ==
    /\ static_calls = 1
    /\ static_guard = "done"
    /\ \A c \in SharedConns : last[c].turn = "command" /\ ncmd[c] = 1

(***************************************************************************)
(* The end of the pool (SpecPoolDrain).                                    *)
(***************************************************************************)
\* C32: the destructor of the pool returns only when no task is running
\* or queued any more, so a task that never returns keeps it in join for
\* ever; and when every task returns, a destructor that has begun returns
C32_DtorTermination ==
    /\ [](mpc = "dtor_done" =>
            /\ tasks = <<>>
            /\ \A w \in Workers : wpc[w] = "exited"
            /\ \A t \in 1..ntask : executed[t] = 1)
    /\ (mpc = "dtor_lock") ~> (mpc = "dtor_done")

\* the destructor has returned; when it set stop one task was in the
\* queue and the tasks before it had been taken by the workers
C32_Witness ==
    /\ mpc = "dtor_done"
    /\ ntask = NumWorkers + 1
    /\ queuedAtStop = {ntask}
    /\ \A t \in 1..ntask : executed[t] = 1

(***************************************************************************)
(* The socket of a session (SpecServer).                                   *)
(***************************************************************************)
\* C33: the socket of a session is closed by the session itself, at the
\* end of handle_client after quit or after the peer has gone, and once:
\* after the close nothing is sent or received on it; only the worker
\* that runs a session sends and receives on its socket
C33_SocketOwnership ==
    [][\A c \in Conns :
          /\ spc[c] = "closed" =>
                /\ spc'[c] = "closed"
                /\ s2c'[c] = s2c[c]
                /\ Len(c2s'[c]) >= Len(c2s[c])
          /\ (spc[c] # "closed" /\ spc'[c] = "closed") =>
                /\ spc[c] = "await"
                /\ last'[c].turn \in {"quit", "eof"}
                /\ \E w \in Workers : Running(c, w) /\ wpc'[w] = "lock"
          /\ (s2c'[c] # s2c[c] \/ Len(c2s'[c]) < Len(c2s[c])) =>
                /\ \E w \in Workers : Running(c, w)
                /\ \A d \in Conns \ {c} :
                      spc'[d] = spc[d] /\ s2c'[d] = s2c[d] /\ c2s'[d] = c2s[d]
      ]_vars

\* one session has closed its socket after quit and another after its
\* peer had closed
C33_Witness ==
    \E c, d \in Conns :
       /\ spc[c] = "closed" /\ last[c].turn = "quit"
       /\ spc[d] = "closed" /\ last[d].turn = "eof"

(***************************************************************************)
(* The end of a download on the client (SpecXfer).                         *)
(***************************************************************************)
\* C34: a get of a file that exists completes on the client however the
\* stream of the server is cut into reads: when the server is back in
\* AWAIT_COMMAND and the client has received all it sent, the client has
\* left the receive loop of handle_get and is at its prompt
C34_DownloadCompletes ==
    (/\ LastGetOfFile
     /\ spc[ClientConn] = "await"
     /\ s2c[ClientConn] = <<>>
     /\ c2s[ClientConn] = <<>>)
    => cpc = "prompt"

(***************************************************************************)
(* The listener of the terminate port and its buffer (SpecCancel,          *)
(* SpecBuffer).                                                            *)
(***************************************************************************)
\* C35: whatever a canceller sends, the listener finishes the request,
\* the process is not ended and the sessions go on: no thread is killed
\* and the connection of the request is closed by the listener
C35_ListenerSurvives ==
    /\ mpc # "killed"
    /\ \A c \in Conns : spc[c] # "killed"
    /\ \A w \in Workers : wpc[w] # "killed"
    /\ term_sock \in {"none", "open", "closed"}

\* C40: for every number of bytes recv returns, the NUL that ends the
\* request is written inside char buffer[BUFFER_SIZE]
C40_BufferBound ==
    term_nul \in 0..(BUFFER_SIZE - 1)

(***************************************************************************)
(* What an upload leaves in the file (SpecUpload).                         *)
(***************************************************************************)
\* C36: put empties the destination, or creates it empty, before a byte
\* of payload is read; every read without the marker adds what it
\* returned to the file; the end of the stream leaves the file as it is
\* and is answered by ERROR: File transfer failed.: the file then holds
\* the bytes received and nothing of what it held before the put
C36_PartialFile ==
    [][/\ (CommandStep(1) /\ spc'[1] = "put") =>
             /\ put_file'[1] \in DOMAIN files'
             /\ files'[put_file'[1]] = <<>>
             /\ put_off'[1] = 0
       /\ (spc[1] = "put" /\ Len(c2s'[1]) < Len(c2s[1])
              /\ ~Contains(last'[1].data, MARKER)) =>
             /\ files'[put_file[1]] = files[put_file[1]] \o last'[1].data
             /\ spc'[1] = "put"
       /\ (spc[1] = "put" /\ c2s[1] = <<>> /\ cclosed[1]) =>
             /\ files' = files
             /\ put_file[1] \in DOMAIN files
             /\ last'[1].out =
                   <<send_response2(S_ERROR, Msg.FileTransferFailed)>>]_vars

\* an upload to the name of the file that held a has failed after the
\* byte b: the file holds b
C36_Witness ==
    /\ last[1].turn = "eof"
    /\ last[1].out = <<send_response2(S_ERROR, Msg.FileTransferFailed)>>
    /\ put_file[1] = <<NameF>>
    /\ files[<<NameF>>] = <<"b">>

\* C37: when a read of the receive loop returns the marker, the bytes
\* before the marker are added to the file and the bytes that follow it
\* in that read go nowhere: they are not written, the session keeps
\* nothing of them, and the command it dispatches next is made of bytes
\* it reads from the socket after that read
C37_BytesAfterMarker ==
    [][/\ (spc[1] = "put" /\ Len(c2s'[1]) < Len(c2s[1])
             /\ Contains(last'[1].data, MARKER)) =>
             LET data == last'[1].data IN
             /\ files'[put_file[1]] =
                   files[put_file[1]] \o SubSeq(data, 1, find(data, MARKER))
             /\ s2c'[1] = s2c[1] \o send_response2(S_SUCCESS,
                                           Msg.FileTransferCompleted)
             /\ spc'[1] = "await"
             /\ leftover_data'[1] = <<>>
             /\ c2s[1] = data \o c2s'[1]
       /\ CommandStep(1) =>
             /\ leftover_data[1] = <<>>
             /\ c2s[1] = last'[1].data \o c2s'[1]]_vars

\* a read has returned b, the marker and pwd: the file holds b, the upload
\* is acknowledged, and no answer to pwd has been sent
C37_Witness ==
    /\ last[1].turn = "put"
    /\ last[1].data = <<"b">> \o MARKER \o Line(Kw.pwd, <<>>)
    /\ files[put_file[1]] = <<"b">>
    /\ spc[1] = "await"
    /\ c2s[1] = <<>>
    /\ s2c[1] = send_response1(S_welcome_msg)
                   \o send_response2(S_SUCCESS, S_READY_TO_RECEIVE)
                   \o send_response2(S_SUCCESS, Msg.FileTransferCompleted)

(***************************************************************************)
(* Two sessions on one name (SpecMkdir, SpecTwoPuts).                      *)
(***************************************************************************)
\* C38: when two sessions have each executed mkdir e, their first
\* command, on a name that did not exist, in whatever order their system
\* calls were made, one of them has replied
\* SUCCESS: Directory created successfully. and the other an ERROR line,
\* and the directory exists
C38_ConcurrentMkdir ==
    (\A c \in SharedConns :
        /\ ncmd[c] = 1
        /\ c2s[c] = <<>>
        /\ last[c].turn = "command"
        /\ trim(last[c].data) = Kw.mkdir \o <<" ">> \o NameE)
    => /\ <<NameE>> \in dirs
       /\ \E c \in SharedConns :
             /\ last[c].out = <<send_response2(S_SUCCESS, Msg.DirCreated)>>
             /\ \A d \in SharedConns \ {c} :
                   /\ Len(last[d].out) = 1
                   /\ IsErrorLine(last[d].out[1])

\* both sessions found the name absent; one has created the directory and
\* the mkdir of the other has failed
C38_Witness ==
    /\ \A c \in SharedConns : ncmd[c] = 1 /\ c2s[c] = <<>>
    /\ \E c \in SharedConns :
          last[c].out = <<send_response2(S_ERROR, Msg.UnableToCreateDir)>>
    /\ <<NameE>> \in dirs

\* C39: when two sessions upload to one name at overlapping times and
\* both are answered SUCCESS: File transfer completed., the file holds the
\* payload of one of the two uploads
C39_ConcurrentPuts ==
    (\A c \in SharedConns :
        /\ last[c].turn = "put"
        /\ last[c].out =
              <<send_response2(S_SUCCESS, Msg.FileTransferCompleted)>>
        /\ put_file[c] = <<NameH>>
        /\ ncmd[c] = 2)
    => \E c \in SharedConns :
          files[<<NameH>>] =
             SubSeq(last[c].data, 1, find(last[c].data, MARKER))
=============================================================================
